---- MODULE Spec2Model ----
(***************************************************************************)
(* Model of the eye-stabilizer nodes (eye_stabilizer_node.py, V1, and      *)
(* eye_stabilizer_v2_node.py, V2): the scalar Kalman smoother, the blink   *)
(* detectors, the preset table and the per-sequence frame pipeline.        *)
(*                                                                         *)
(* Numbers.  Python floats are modelled as exact fixed-point integers:     *)
(*   - an EAR passed to detect_blink is in units of 0.01;                  *)
(*   - avg_ear = (left + right) / 2 is kept in units of 0.005, so that     *)
(*     the halving is exact: the stored number is left + right;            *)
(*   - baseline_ear (a 75th percentile interpolated at a quarter of the    *)
(*     gap between two samples) is kept in units of 0.00125;               *)
(*   - thresholds, strengths and preset weights are in units of 0.01;      *)
(*   - pixel coordinates and Kalman estimates are in units of 0.01 pixel,  *)
(*     normalised landmark coordinates in units of 0.01;                   *)
(*   - a tensor value p in [0, 1] is the integer 510 * p, an 8-bit image   *)
(*     value is an integer 0..255;                                         *)
(*   - None is the empty sequence <<>>, a set value v is <<v>>.            *)
(* Comparisons are done by cross-multiplication, so they are the exact     *)
(* comparisons of the real numbers the floats stand for.                   *)
(***************************************************************************)
EXTENDS Integers, Sequences, FiniteSets, TLC

VARIABLES
    det,        \* detector level: the blink detector object
    detCalls,   \* detector level: number of detect_blink calls made so far
    detRun,     \* detector level: length of the current run of raw-blink frames
    detLast,    \* detector level: what the last detect_blink call did
    detChanges, \* detector level: how often the input differed from the one before
    detSeen     \* detector level: the averaged EARs fed to a calibrating detector

VARIABLES
    kf,         \* smoother level: one KalmanFilter1D object
    kfIn,       \* smoother level: the measurements passed to update, in order
    kfOut       \* smoother level: the values update returned, in order

VARIABLES
    node,       \* pipeline level: the long-lived node object (V1 or V2)
    call        \* pipeline level: the stabilize_eyes call in progress, if any

VARIABLES
    earIn,      \* EAR level: the contours passed to calculate_ear, in order
    earOut      \* EAR level: the values calculate_ear returned, in order

VARIABLES
    trk,        \* tracker level: the landmark_filters map of a node
    trkCalls,   \* tracker level: number of _apply_smoothing calls made so far
    trkLast     \* tracker level: the arguments of the last _apply_smoothing call

VARIABLES
    mon,        \* watchdog level: the ShutdownMonitor object
    loops,      \* watchdog level: the _monitor_loop threads started so far
    handler,    \* watchdog level: where the toggle handler on the event loop stands
    wd          \* watchdog level: is the process alive, shutdowns initiated, armed by a toggle

detVars == <<det, detCalls, detRun, detLast, detChanges, detSeen>>
earVars == <<earIn, earOut>>
trkVars == <<trk, trkCalls, trkLast>>
wdVars == <<mon, loops, handler, wd>>
kfVars == <<kf, kfIn, kfOut>>
pipeVars == <<node, call>>

vars == <<detVars, kfVars, pipeVars, earVars, trkVars, wdVars>>

----------------------------------------------------------------------------
(* Bounds of the model. *)

\* detect_blink calls explored with free inputs.
MaxCalls == 11
\* detect_blink calls explored with free inputs on an auto-mode detector,
\* whose calibration samples grow with every call (SpecCalib goes further).
MaxAutoCalls == 6
\* detect_blink calls explored past the calibration point in auto mode.
MaxPostCalib == 6
\* input changes allowed to a calibration stream.
MaxChanges == 2
\* update calls made on one smoother.
MaxUpdates == 6
\* frames in the image batch of one stabilize_eyes call.
MaxFrames == 2
\* stabilize_eyes calls made on one node instance.
MaxInvocations == 2
\* calculate_ear calls compared with each other.
MaxEarCalls == 2
\* _apply_smoothing calls made on one filter map.
MaxSmoothCalls == 3
\* frames past the calibration count in a long batch.
MaxExtraFrames == 1
\* frames of a long batch on which no face is found.
MaxMisses == 1
\* frames of a batch in which blink runs are followed.
MaxRunFrames == 7

----------------------------------------------------------------------------
(* Program constants. *)

HistorySize == 5
CalibrationCount == 30
CalibratedThreshold == 35

None == <<>>
Some(v) == <<v>>
IsNone(o) == o = <<>>
Val(o) == o[1]

\* "x = e" followed by code that uses x: e is computed once and F gets its
\* value.
With(e, F(_)) == CHOOSE y \in { F(x) : x \in { e } } : TRUE

----------------------------------------------------------------------------
(* ETHNICITY_PRESETS: strengths, thresholds and weights in units of 0.01.  *)

ETHNICITY_PRESETS ==
    [ auto |->
        [ name |-> "Auto-Detect", blink_threshold |-> 20,
          smoothing_strength |-> 70, enhancement_strength |-> 130,
          ear_baseline |-> None ],
      east_asian |->
        [ name |-> "East Asian (Chinese, Japanese, Korean)", blink_threshold |-> 12,
          smoothing_strength |-> 40, enhancement_strength |-> 110,
          ear_baseline |-> Some(18), iris_visibility_factor |-> 70,
          eyelid_weight |-> 130 ],
      south_asian |->
        [ name |-> "South Asian (Indian, Pakistani, Bangladeshi)", blink_threshold |-> 18,
          smoothing_strength |-> 60, enhancement_strength |-> 125,
          ear_baseline |-> Some(22), iris_visibility_factor |-> 85,
          eyelid_weight |-> 100 ],
      african |->
        [ name |-> "African / African American", blink_threshold |-> 22,
          smoothing_strength |-> 65, enhancement_strength |-> 140,
          ear_baseline |-> Some(25), iris_visibility_factor |-> 90,
          eyelid_weight |-> 90, contrast_boost |-> 115 ],
      caucasian |->
        [ name |-> "Caucasian / European", blink_threshold |-> 20,
          smoothing_strength |-> 70, enhancement_strength |-> 130,
          ear_baseline |-> Some(26), iris_visibility_factor |-> 100,
          eyelid_weight |-> 100 ],
      middle_eastern |->
        [ name |-> "Middle Eastern / Arab", blink_threshold |-> 19,
          smoothing_strength |-> 60, enhancement_strength |-> 135,
          ear_baseline |-> Some(24), iris_visibility_factor |-> 95,
          eyelid_weight |-> 110 ],
      latino |->
        [ name |-> "Latino / Hispanic", blink_threshold |-> 19,
          smoothing_strength |-> 65, enhancement_strength |-> 130,
          ear_baseline |-> Some(24), iris_visibility_factor |-> 95,
          eyelid_weight |-> 100 ] ]

PresetNames == DOMAIN ETHNICITY_PRESETS

\* blink_suppression_settings of V2 stabilize_eyes: (enabled, minimum run).
blink_suppression_settings ==
    [ off        |-> <<FALSE, 0>>,
      light      |-> <<TRUE, 2>>,
      moderate   |-> <<TRUE, 3>>,
      aggressive |-> <<TRUE, 5>> ]

SuppressionModes == DOMAIN blink_suppression_settings

----------------------------------------------------------------------------
(* Sequence helpers: sum(...), len(...), sorted order as numpy sorts it.   *)

RECURSIVE SumSeq(_)
SumSeq(s) == IF s = <<>> THEN 0 ELSE Head(s) + SumSeq(Tail(s))

RECURSIVE InsertSorted(_, _)
InsertSorted(s, x) ==
    IF s = <<>> THEN <<x>>
    ELSE IF x <= Head(s) THEN <<x>> \o s
    ELSE <<Head(s)>> \o InsertSorted(Tail(s), x)

RECURSIVE Sorted(_)
Sorted(s) == IF s = <<>> THEN <<>> ELSE InsertSorted(Sorted(Tail(s)), Head(s))

\* an append that drops the new entry, not the oldest, when full.
DequeAppendKeepOldest(q, x, maxlen) ==
    IF Len(q) < maxlen THEN Append(q, x) ELSE q

\* deque(maxlen=n).append(x): the oldest entry is dropped when full.
DequeAppend(q, x, maxlen) ==
    IF Len(q) < maxlen THEN Append(q, x) ELSE Append(Tail(q), x)

\* np.percentile(samples, 75), linear interpolation, times 4: the virtual
\* index is 0.75 * (n - 1); its fraction is a multiple of a quarter.
Percentile75Off(samples) ==
    LET n    == Len(samples)
        s    == Sorted(samples)
        pos4 == 3 * n
        lo   == (pos4 \div 4) + 1
        fr   == pos4 % 4
    IN  IF lo >= n THEN 4 * s[n] ELSE 4 * s[lo] + fr * (s[lo + 1] - s[lo])

Percentile75(samples) ==
    LET n    == Len(samples)
        s    == Sorted(samples)
        pos4 == 3 * (n - 1)
        lo   == (pos4 \div 4) + 1
        fr   == pos4 % 4
    IN  IF lo >= n THEN 4 * s[n] ELSE 4 * s[lo] + fr * (s[lo + 1] - s[lo])

----------------------------------------------------------------------------
(* KalmanFilter1D (the same class in V1 and V2).  Variances are in units   *)
(* of 0.00001, estimates and measurements in units of 0.01; a quotient is  *)
(* rounded down to the unit.                                               *)

\* error_estimate = 1.0 at construction.
InitialErrorEstimate == 100000
\* measurement_variance = 1e-1, as _apply_smoothing passes it and as the
\* constructor defaults it.
MeasurementVariance == 10000
\* process_variance = 1e-3 by default.
DefaultProcessVariance == 100

KalmanFilter1D(process_variance, measurement_variance) ==
    [ process_variance |-> process_variance,
      measurement_variance |-> measurement_variance,
      estimate |-> 0, error_estimate |-> InitialErrorEstimate ]

\* variance = 1e-3 * (1 - strength), strength in units of 0.0001 (the
\* product of a strength and a preset weight, both in units of 0.01); the
\* variance is rounded down to its unit of 0.00001.
StrengthVariance(strength) == (10000 - strength) \div 100

\* update with the innovation taken with the wrong sign.
KalmanFilter1D_updateWrongSign(f, measurement) ==
    LET prediction_error == f.error_estimate + f.process_variance
        d == prediction_error + f.measurement_variance
    IN  [f EXCEPT !.estimate = f.estimate
                      + ((prediction_error * (f.estimate - measurement)) \div d),
                  !.error_estimate = (f.measurement_variance * prediction_error) \div d]

\* update: kalman_gain = prediction_error / (prediction_error + measurement_variance)
\* is kept as that quotient; (1 - kalman_gain) * prediction_error is
\* measurement_variance * prediction_error / (prediction_error + measurement_variance).
KalmanFilter1D_update(f, measurement) ==
    LET prediction_error == f.error_estimate + f.process_variance
        d == prediction_error + f.measurement_variance
    IN  [f EXCEPT !.estimate = f.estimate
                      + ((prediction_error * (measurement - f.estimate)) \div d),
                  !.error_estimate = (f.measurement_variance * prediction_error) \div d]

----------------------------------------------------------------------------
(* V1 BlinkDetector. *)

BlinkDetector(threshold) ==
    [ cls |-> "BlinkDetector", history_size |-> HistorySize,
      threshold |-> threshold, ear_history |-> <<>> ]

\* "len(self.ear_history) < self.history_size", one entry too lenient.
HistoryShortOff(history, history_size) == Len(history) < history_size - 1

\* "len(self.ear_history) < self.history_size": too little context to classify.
HistoryShort(history, history_size) == Len(history) < history_size

\* the comparison, were the reference the mean of the entries before avg_ear.
BelowEarlierMean(avg, history, threshold) ==
    avg * (Len(history) - 1) * 100 < (SumSeq(history) - avg) * (100 - threshold)

\* avg_ear < avg_historical * (1 - threshold), avg_historical the mean of
\* the history that already holds avg_ear.
BelowHistoryMean(avg, history, threshold) ==
    avg * Len(history) * 100 < SumSeq(history) * (100 - threshold)

\* The result of a detect_blink call: the detector after it, the value it
\* returned, and the raw flag it computed (FALSE when it returned before
\* computing one).
BlinkDetector_detect_blink(d, left_ear, right_ear) ==
    LET avg_ear == left_ear + right_ear
        hist    == DequeAppend(d.ear_history, avg_ear, d.history_size)
        d1      == [d EXCEPT !.ear_history = hist]
    IN  IF HistoryShort(hist, d.history_size)
        THEN [det |-> d1, result |-> FALSE, raw |-> FALSE, classified |-> FALSE]
        ELSE LET b == BelowHistoryMean(avg_ear, hist, d.threshold)
             IN  [det |-> d1, result |-> b, raw |-> b, classified |-> TRUE]

----------------------------------------------------------------------------
(* V2 AdaptiveBlinkDetector. *)

AdaptiveBlinkDetector(threshold, ethnicity_preset, blink_suppression, min_blink_duration) ==
    [ cls |-> "AdaptiveBlinkDetector", history_size |-> HistorySize,
      threshold |-> threshold, ear_history |-> <<>>,
      baseline_ear |-> None, calibration_samples |-> <<>>, calibrated |-> FALSE,
      ethnicity_preset |-> ethnicity_preset,
      blink_suppression |-> blink_suppression,
      min_blink_duration |-> min_blink_duration,
      blink_counter |-> 0, forced_open_ear |-> None ]

calibrateLate(d, ear_value) ==
    IF ~d.calibrated
    THEN LET samples == Append(d.calibration_samples, ear_value)
         IN  IF Len(samples) > CalibrationCount
             THEN [d EXCEPT !.calibration_samples = samples,
                            !.baseline_ear = Some(Percentile75(samples)),
                            !.threshold = CalibratedThreshold,
                            !.calibrated = TRUE]
             ELSE [d EXCEPT !.calibration_samples = samples]
    ELSE d

\* calibrate that computes the baseline but leaves the calibrated flag unset.
calibrateNoFlag(d, ear_value) ==
    IF ~d.calibrated
    THEN LET samples == Append(d.calibration_samples, ear_value)
         IN  IF Len(samples) >= CalibrationCount
             THEN [d EXCEPT !.calibration_samples = samples,
                            !.baseline_ear = Some(Percentile75(samples)),
                            !.threshold = CalibratedThreshold]
             ELSE [d EXCEPT !.calibration_samples = samples]
    ELSE d

calibrate(d, ear_value) ==
    IF ~d.calibrated
    THEN LET samples == Append(d.calibration_samples, ear_value)
         IN  IF Len(samples) >= CalibrationCount
             THEN [d EXCEPT !.calibration_samples = samples,
                            !.baseline_ear = Some(Percentile75(samples)),
                            !.threshold = CalibratedThreshold,
                            !.calibrated = TRUE]
             ELSE [d EXCEPT !.calibration_samples = samples]
    ELSE d

\* avg_ear < baseline_ear * (1 - threshold); baseline in units of 0.00125.
BelowBaseline(avg, baseline, threshold) ==
    avg * 4 * 100 < baseline * (100 - threshold)

\* "if self.calibrated and self.baseline_ear": a baseline of 0.0 is falsy.
RawBlink(d, avg_ear) ==
    IF d.calibrated /\ ~IsNone(d.baseline_ear) /\ Val(d.baseline_ear) # 0
    THEN BelowBaseline(avg_ear, Val(d.baseline_ear), d.threshold)
    ELSE BelowHistoryMean(avg_ear, d.ear_history, d.threshold)

\* The suppression branch of detect_blink, the counter never reset.
SuppressNoReset(d, raw) ==
    IF d.blink_suppression
    THEN IF raw
         THEN LET c == d.blink_counter + 1
              IN  [det |-> [d EXCEPT !.blink_counter = c],
                   result |-> c >= d.min_blink_duration]
         ELSE [det |-> d, result |-> FALSE]
    ELSE [det |-> d, result |-> raw]

\* The suppression branch of detect_blink, the counter starting over once
\* a blink has been reported.
SuppressRestart(d, raw) ==
    IF d.blink_suppression
    THEN IF raw
         THEN LET c == d.blink_counter + 1
              IN  [det |-> [d EXCEPT !.blink_counter =
                                        IF c >= d.min_blink_duration THEN 0 ELSE c],
                   result |-> c >= d.min_blink_duration]
         ELSE [det |-> [d EXCEPT !.blink_counter = 0], result |-> FALSE]
    ELSE [det |-> d, result |-> raw]

\* The suppression branch of detect_blink.
Suppress(d, raw) ==
    IF d.blink_suppression
    THEN IF raw
         THEN LET c == d.blink_counter + 1
              IN  [det |-> [d EXCEPT !.blink_counter = c],
                   result |-> c >= d.min_blink_duration]
         ELSE [det |-> [d EXCEPT !.blink_counter = 0], result |-> FALSE]
    ELSE [det |-> d, result |-> raw]

AdaptiveBlinkDetector_detect_blink(d, left_ear, right_ear) ==
    LET avg_ear == left_ear + right_ear
        d1      == IF ~d.calibrated /\ d.ethnicity_preset = "auto"
                   THEN calibrate(d, avg_ear) ELSE d
        hist    == DequeAppend(d1.ear_history, avg_ear, d1.history_size)
        d2      == [d1 EXCEPT !.ear_history = hist]
    IN  IF HistoryShort(hist, d2.history_size)
        THEN [det |-> d2, result |-> FALSE, raw |-> FALSE, classified |-> FALSE]
        ELSE LET raw == RawBlink(d2, avg_ear)
                 s   == Suppress(d2, raw)
             IN  [det |-> s.det, result |-> s.result, raw |-> raw, classified |-> TRUE]

detect_blink(d, left_ear, right_ear) ==
    IF d.cls = "BlinkDetector"
    THEN BlinkDetector_detect_blink(d, left_ear, right_ear)
    ELSE AdaptiveBlinkDetector_detect_blink(d, left_ear, right_ear)

----------------------------------------------------------------------------
(* Detector level: a fresh detector, as stabilize_eyes constructs it, fed  *)
(* by a sequence of detect_blink calls.                                    *)

\* (left_ear, right_ear) arguments, in units of 0.01.
EarPairs == { <<32, 32>>, <<10, 6>>, <<0, 0>> }
CalibPairs == { <<25, 25>>, <<0, 0>> }

\* The detectors V1 stabilize_eyes (blink_threshold in [0.1, 0.5]) and V2
\* stabilize_eyes (every preset, every suppression mode) construct.
V1Thresholds == { 10, 20, 50 }

FreshDetectors ==
    { BlinkDetector(t) : t \in V1Thresholds }
    \cup { AdaptiveBlinkDetector(ETHNICITY_PRESETS[p].blink_threshold, p,
                                 blink_suppression_settings[m][1],
                                 blink_suppression_settings[m][2]) :
           p \in PresetNames, m \in SuppressionModes }

NoCall == [left |-> 0, right |-> 0, result |-> FALSE, raw |-> FALSE, classified |-> FALSE]

Changed(pair) == detCalls > 0 /\ <<detLast.left, detLast.right>> # pair

\* One detect_blink(left_ear, right_ear) call; a calibration stream also
\* records its inputs and counts its level changes.
Call(pair, record) ==
    LET r == detect_blink(det, pair[1], pair[2])
    IN  /\ det' = r.det
        /\ detCalls' = detCalls + 1
        /\ detRun' = IF r.raw THEN detRun + 1 ELSE 0
        /\ detLast' = [left |-> pair[1], right |-> pair[2], result |-> r.result,
                       raw |-> r.raw, classified |-> r.classified]
        /\ detChanges' = IF record /\ Changed(pair) THEN detChanges + 1 ELSE detChanges
        /\ detSeen' = IF record THEN Append(detSeen, pair[1] + pair[2]) ELSE detSeen

DetectorStart(detectors) ==
    /\ det \in detectors
    /\ detCalls = 0
    /\ detRun = 0
    /\ detLast = NoCall
    /\ detChanges = 0
    /\ detSeen = <<>>

DetectorCall ==
    /\ detCalls < (IF det.cls = "AdaptiveBlinkDetector" /\ det.ethnicity_preset = "auto"
                   THEN MaxAutoCalls ELSE MaxCalls)
    /\ \E pair \in EarPairs : Call(pair, FALSE)

\* Auto mode: a calibrating detector fed a stream that changes level at
\* most MaxChanges times, until MaxPostCalib calls past the calibration.
CalibCall ==
    /\ detCalls < CalibrationCount + MaxPostCalib
    /\ \E pair \in CalibPairs :
         /\ Changed(pair) => detChanges < MaxChanges
         /\ Call(pair, TRUE)

----------------------------------------------------------------------------
(* Smoother level: a fresh KalmanFilter1D, as _apply_smoothing creates it  *)
(* for a strength in [0, 1], fed by a sequence of update calls.            *)

\* strength, in units of 0.0001.
Strengths == { 0, 4000, 7000, 10000 }
\* measurements, in units of 0.01.
Measurements == { -300, 100, 1000 }

KalmanStart(filters) ==
    /\ kf \in filters
    /\ kfIn = <<>>
    /\ kfOut = <<>>

KalmanUpdate ==
    /\ Len(kfIn) < MaxUpdates
    /\ \E m \in Measurements :
         LET f == KalmanFilter1D_update(kf, m)
         IN  /\ kf' = f
             /\ kfIn' = Append(kfIn, m)
             /\ kfOut' = Append(kfOut, f.estimate)

\* measurements of a stationary quantity: 10.00 with a noise of at most 0.10.
NoisyMeasurements == { 990, 1000, 1010 }

\* update on a fresh default filter, as the source's test feeds it.
NoisyUpdate ==
    /\ Len(kfIn) < MaxUpdates
    /\ \E m \in NoisyMeasurements :
         \E f \in { KalmanFilter1D_update(kf, m) } :
             /\ kf' = f
             /\ kfIn' = Append(kfIn, m)
             /\ kfOut' = Append(kfOut, f.estimate)

----------------------------------------------------------------------------
(* Images.  A frame is a height x width grey image made of equal-area      *)
(* bands of uniform level; px lists the levels of the bands.  Point        *)
(* operations (quantisation, contrast) are computed on px; neighbourhood   *)
(* operations and drawings are recorded, in order, in ops.                 *)

\* images[i]: a float tensor of shape (height, width, 3).
Tensor(shape, px) == [shape |-> shape, px |-> px, ops |-> <<>>]

\* (frame.cpu().numpy() * 255).astype(np.uint8): the fraction is cut off.
ToUint8(p) == p \div 2

\* Image.fromarray((frame.cpu().numpy() * 255).astype(np.uint8))
TensorToPil(frame) ==
    [frame EXCEPT !.px = [k \in DOMAIN frame.px |-> ToUint8(frame.px[k])]]

\* _pil_to_tensor: np.array(pil_image).astype(np.float32) / 255.0
_pil_to_tensor(pil_image) ==
    [pil_image EXCEPT !.px = [k \in DOMAIN pil_image.px |-> 2 * pil_image.px[k]]]

\* Image.blend(degenerate, image, factor) on one 8-bit value, factor in
\* units of 0.01: clipped to 0..255, the fraction cut off.
Blend(degenerate, value, factor) ==
    LET t == 100 * degenerate + factor * (value - degenerate)
    IN  IF t <= 0 THEN 0 ELSE IF t >= 25500 THEN 255 ELSE t \div 100

\* ImageEnhance.Contrast(image).enhance(factor): the degenerate image is the
\* rounded mean level, int(mean + 0.5).
Contrast(image, factor) ==
    IF image.ops # <<>>
    THEN [image EXCEPT !.ops = Append(@, <<"Contrast", factor>>)]
    ELSE LET n    == Len(image.px)
             mean == (2 * SumSeq(image.px) + n) \div (2 * n)
         IN  [image EXCEPT !.px = [k \in DOMAIN image.px |-> Blend(mean, image.px[k], factor)]]

\* ImageEnhance.Sharpness(image).enhance(strength)
Sharpness(image, strength) ==
    [image EXCEPT !.ops = Append(@, <<"Sharpness", strength>>)]

\* image.filter(ImageFilter.SHARPEN)
FilterSharpen(image) == [image EXCEPT !.ops = Append(@, <<"SHARPEN">>)]

\* frame_sharp * mask + frame * (1 - mask): the sharpened image inside the
\* mask, the frame outside it.
BlendThroughMask(frame, sharp, mask) ==
    [frame EXCEPT !.ops = Append(@, <<"masked", sharp.ops, mask.polys, mask.dilation>>)]

\* Image.new('L', frame_pil.size, 0) with an eye region drawn into it.
ZeroMaskFilled(shape) ==
    [shape |-> shape, polys |-> << << <<0, 0>>, <<1, 0>>, <<1, 1>> >> >>, dilation |-> 0,
     level |-> 255]

\* Image.new('L', frame_pil.size, 0)
ZeroMask(shape) == [shape |-> shape, polys |-> <<>>, dilation |-> 0, level |-> 255]

\* cv2.fillPoly with 255 for both eye contours, then cv2.dilate when
\* dilation > 0.
EyeMask(shape, left_eye_int, right_eye_int, dilation) ==
    [shape |-> shape, polys |-> <<left_eye_int, right_eye_int>>, dilation |-> dilation,
     level |-> 255]

\* _pil_to_tensor(eye_mask_pil.convert('RGB'))[:, :, 0:1]: the filled level
\* 255 becomes 1.0.
MaskToTensor(eye_mask_pil) == [eye_mask_pil EXCEPT !.level = 2 * @]

\* _enhance_image: the fallback without landmarks.
_enhance_image(image_pil, strength) == Sharpness(image_pil, strength)

\* V1 _enhance_eyes.
_enhance_eyes(frame_pil, eye_mask_pil, strength) ==
    BlendThroughMask(frame_pil, Sharpness(FilterSharpen(frame_pil), strength), eye_mask_pil)

HasContrastBoost(preset) == "contrast_boost" \in DOMAIN preset

\* V2 _ethnicity_preprocess.
_ethnicity_preprocess(frame_pil, preset) ==
    IF HasContrastBoost(preset) THEN Contrast(frame_pil, preset.contrast_boost) ELSE frame_pil

\* V2 _ethnicity_preprocess without the contrast step.
_ethnicity_preprocessNone(frame_pil, preset) == frame_pil

\* V2 _ethnicity_enhance_eyes.
_ethnicity_enhance_eyes(frame_pil, eye_mask_pil, preset, base_strength) ==
    LET sharp  == Sharpness(FilterSharpen(frame_pil), base_strength)
        sharp2 == IF HasContrastBoost(preset) THEN Contrast(sharp, 110) ELSE sharp
    IN  BlendThroughMask(frame_pil, sharp2, eye_mask_pil)

\* The debug drawing: cv2.circle per contour and iris point, "BLINK" when
\* blinking, and (V2) the preset name.
DrawDebug(debug_pil, eyes_int, iris_int, is_blinking, label) ==
    [debug_pil EXCEPT !.ops =
        @ \o <<<<"circles", eyes_int, iris_int>>>>
          \o (IF is_blinking THEN <<<<"BLINK">>>> ELSE <<>>)
          \o (IF label = None THEN <<>> ELSE <<<<"label", Val(label)>>>>)]

----------------------------------------------------------------------------
(* Landmarks: arrays of (x, y) points in units of 0.01 pixel.              *)

\* astype(np.int32) of a coordinate: the fraction is cut off toward zero.
TruncInt(v) == IF v >= 0 THEN v \div 100 ELSE -((-v) \div 100)

AsInt(landmarks) ==
    [k \in DOMAIN landmarks |-> <<TruncInt(landmarks[k][1]), TruncInt(landmarks[k][2])>>]

\* _get_landmarks: int(landmark.x * width), int(landmark.y * height) for
\* the normalised coordinates of the listed points, as np.float32.
_get_landmarks(points, width, height) ==
    [k \in DOMAIN points |->
        <<100 * ((points[k][1] * width) \div 100), 100 * ((points[k][2] * height) \div 100)>>]

\* The integer square root, by bisection between lo and hi.
RECURSIVE SqrtBetween(_, _, _)
SqrtBetween(n, lo, hi) ==
    IF lo >= hi THEN lo
    ELSE LET mid == (lo + hi + 1) \div 2
         IN  IF mid * mid <= n THEN SqrtBetween(n, mid, hi) ELSE SqrtBetween(n, lo, mid - 1)

\* np.linalg.norm(p - q), rounded down to 0.01 pixel.
Norm(p, q) ==
    LET dx == p[1] - q[1]
        dy == p[2] - q[2]
    IN  With(dx * dx + dy * dy, LAMBDA n : SqrtBetween(n, 0, 20000))

\* calculate_ear with the second vertical distance left out.
calculate_earOneSpan(eye_landmarks) ==
    IF Len(eye_landmarks) < 6 THEN 30
    ELSE LET v1 == Norm(eye_landmarks[2], eye_landmarks[6])
             h  == Norm(eye_landmarks[1], eye_landmarks[4])
             a  == 50 * v1
         IN  IF h = 0 THEN 20000 * a
             ELSE LET q == a \div h
                      r == a % h
                  IN  q + ((20000 * r - q) \div (20000 * h + 1))

\* calculate_ear returning 0 for a contour of fewer than 6 points.
calculate_earShortZero(eye_landmarks) ==
    IF Len(eye_landmarks) < 6 THEN 0
    ELSE LET v1 == Norm(eye_landmarks[2], eye_landmarks[6])
             v2 == Norm(eye_landmarks[3], eye_landmarks[5])
             h  == Norm(eye_landmarks[1], eye_landmarks[4])
             a  == 50 * (v1 + v2)
         IN  IF h = 0 THEN 20000 * a
             ELSE LET q == a \div h
                      r == a % h
                  IN  q + ((20000 * r - q) \div (20000 * h + 1))

\* calculate_ear (the same method in V1 and V2), in units of 0.01, rounded
\* down: (v1 + v2) / (2.0 * h + 1e-6).  With v1, v2, h in units of 0.01
\* pixel the quotient is 20000 * a / (20000 * h + 1) for a = 50 * (v1 + v2).
calculate_ear(eye_landmarks) ==
    IF Len(eye_landmarks) < 6 THEN 30
    ELSE LET v1 == Norm(eye_landmarks[2], eye_landmarks[6])
             v2 == Norm(eye_landmarks[3], eye_landmarks[5])
             h  == Norm(eye_landmarks[1], eye_landmarks[4])
             a  == 50 * (v1 + v2)
         IN  IF h = 0 THEN 20000 * a
             ELSE LET q == a \div h
                      r == a % h
                  IN  q + ((20000 * r - q) \div (20000 * h + 1))

\* EAR level: calculate_ear, which reads and writes no state, applied to
\* contours p1..p6 = (0,0), (1,a), (2,b), (h,0), (2+s,-b), (1,-a) in pixels.
Contour(h, a, b, s) ==
    << <<0, 0>>, <<100, a>>, <<200, b>>, <<h, 0>>, <<200 + s, -b>>, <<100, -a>> >>

\* the contours of the source's test: an open eye and a closed eye.
EyeOpen == Contour(300, 100, 120, 0)
EyeClosed == Contour(300, 20, 20, 0)

\* p1 = p4 when h = 0; fewer than 6 points for the short ones.
Contours ==
    { Contour(h, a, b, s) : h \in { 0, 300, 400 }, a \in { 0, 20, 100 },
                            b \in { 20, 120 }, s \in { 0, 100 } }
    \cup { <<>>, SubSeq(EyeOpen, 1, 5) }

EarStart ==
    /\ earIn = <<>>
    /\ earOut = <<>>

CalculateEar ==
    /\ Len(earIn) < MaxEarCalls
    /\ \E c \in Contours :
         /\ earIn' = Append(earIn, c)
         /\ earOut' = Append(earOut, calculate_ear(c))

\* self.landmark_filters = {}
EmptyFilters == [k \in {} |-> 0]

\* The filter a key is updated from, its variance taken from the strength of
\* the current call even when the filter exists.
FilterBeforeRestrength(filters, k, strength) ==
    IF <<k[1], k[2], "x">> \in DOMAIN filters
    THEN [filters[k] EXCEPT !.process_variance = (10000 - strength) \div 100]
    ELSE [process_variance |-> (10000 - strength) \div 100,
          measurement_variance |-> 10000, estimate |-> 0, error_estimate |-> 100000]

\* _apply_smoothing (the same method in V1 and V2): the two filters of a
\* point are created when its x key is missing, then both are updated with
\* the point's coordinates.  A key is "<key>_<i>_<axis>", here the triple;
\* strength is in units of 0.0001.
\* the keys of a call, the y filters left out.
FilterKeysXOnly(landmarks, key) ==
    { <<key, i - 1, "x">> : i \in 1..Len(landmarks) }

FilterKeys(landmarks, key) ==
    { <<key, i - 1, axis>> : i \in 1..Len(landmarks), axis \in { "x", "y" } }

FilterBefore(filters, k, strength) ==
    IF <<k[1], k[2], "x">> \in DOMAIN filters THEN filters[k]
    ELSE KalmanFilter1D(StrengthVariance(strength), MeasurementVariance)

FilterAfter(filters, landmarks, k, strength) ==
    KalmanFilter1D_update(FilterBefore(filters, k, strength),
                          landmarks[k[2] + 1][IF k[3] = "x" THEN 1 ELSE 2])

_apply_smoothing(filters, landmarks, key, strength) ==
    [ filters |->
        [ k \in DOMAIN filters \cup FilterKeys(landmarks, key) |->
            IF k \in FilterKeys(landmarks, key)
            THEN FilterAfter(filters, landmarks, k, strength)
            ELSE filters[k] ],
      smoothed |->
        [ i \in 1..Len(landmarks) |->
            << FilterAfter(filters, landmarks, <<key, i - 1, "x">>, strength).estimate,
               FilterAfter(filters, landmarks, <<key, i - 1, "y">>, strength).estimate >> ] ]

\* Tracker level: _apply_smoothing called on one filter map with the pixel
\* landmarks of a face, for any of the four keys and any strength.
TrackKeys == { "left_eye", "right_eye", "left_iris", "right_iris" }
TrackStrengths == { 4000, 7000 }
NoSmoothCall == [key |-> "", strength |-> 0, landmarks |-> <<>>, smoothed |-> <<>>]

TrackerStart ==
    /\ trk = EmptyFilters
    /\ trkCalls = 0
    /\ trkLast = NoSmoothCall

ApplySmoothing(faces, width, height) ==
    /\ trkCalls < MaxSmoothCalls
    /\ \E key \in TrackKeys, face \in faces, strength \in TrackStrengths :
         \E landmarks \in { _get_landmarks(face[key], width, height) } :
             \E r \in { _apply_smoothing(trk, landmarks, key, strength) } :
                 /\ trk' = r.filters
                 /\ trkCalls' = trkCalls + 1
                 /\ trkLast' = [key |-> key, strength |-> strength,
                                landmarks |-> landmarks, smoothed |-> r.smoothed]

\* _apply_smoothing switched off or not: the landmarks the later stages see.
SmoothIf(enabled, filters, landmarks, key, strength) ==
    IF enabled THEN _apply_smoothing(filters, landmarks, key, strength)
    ELSE [filters |-> filters, smoothed |-> landmarks]

----------------------------------------------------------------------------
(* The node objects and the per-frame processing.                          *)

\* EyeStabilizerNode.__init__ / EyeStabilizerV2Node.__init__; the import of
\* mediapipe succeeds or not.
EyeStabilizerNode(mediapipe_available) ==
    [ version |-> "V1", landmark_filters |-> EmptyFilters,
      blink_detector |-> Some(BlinkDetector(20)),
      mediapipe_available |-> mediapipe_available,
      face_mesh |-> None, current_preset |-> None ]

EyeStabilizerV2Node(mediapipe_available) ==
    [ version |-> "V2", landmark_filters |-> EmptyFilters,
      blink_detector |-> None,
      mediapipe_available |-> mediapipe_available,
      face_mesh |-> None, current_preset |-> None ]

\* "if self.face_mesh is None: self.face_mesh = self.mp_face_mesh.FaceMesh(...)"
\* The lazy initialisation, were it to drop the scalar smoothers as well.
WithFaceMeshClearFilters(n) ==
    [n EXCEPT !.face_mesh = Some("FaceMesh"), !.landmark_filters = EmptyFilters]

WithFaceMesh(n) == [n EXCEPT !.face_mesh = Some("FaceMesh")]

\* The landmark stage of _process_with_mediapipe for a detected face:
\* _get_landmarks, the four _apply_smoothing calls in their order, then
\* calculate_ear and detect_blink.  Strengths are in units of 0.0001.
TrackAndDetect(n, face, shape, enable_smoothing, enable_blink, eyelid_strength, iris_strength) ==
    LET height == shape[1]
        width  == shape[2]
    IN  With(SmoothIf(enable_smoothing, n.landmark_filters,
                 _get_landmarks(face.left_eye, width, height), "left_eye", eyelid_strength),
        LAMBDA le :
        With(SmoothIf(enable_smoothing, le.filters,
                 _get_landmarks(face.right_eye, width, height), "right_eye", eyelid_strength),
        LAMBDA re :
        With(SmoothIf(enable_smoothing, re.filters,
                 _get_landmarks(face.left_iris, width, height), "left_iris", iris_strength),
        LAMBDA li :
        With(SmoothIf(enable_smoothing, li.filters,
                 _get_landmarks(face.right_iris, width, height), "right_iris", iris_strength),
        LAMBDA ri :
        With(IF enable_blink
             THEN detect_blink(Val(n.blink_detector), calculate_ear(le.smoothed),
                               calculate_ear(re.smoothed))
             ELSE [det |-> Val(n.blink_detector), result |-> FALSE],
        LAMBDA blink :
            [ node |-> [n EXCEPT !.landmark_filters = ri.filters,
                                 !.blink_detector = Some(blink.det)],
              left_eye |-> le.smoothed, right_eye |-> re.smoothed,
              left_iris |-> li.smoothed, right_iris |-> ri.smoothed,
              is_blinking |-> blink.result,
              blink_called |-> enable_blink ])))))

\* What one frame yields: the node after it, the three images, and what
\* happened on the way.
FrameResult(n, stabilized_pil, eye_mask_pil, debug_pil, face_found, is_blinking, blink_called) ==
    [ node |-> n, stabilized |-> stabilized_pil, eye_mask |-> eye_mask_pil,
      debug |-> debug_pil, face_found |-> face_found,
      is_blinking |-> is_blinking, blink_called |-> blink_called ]

\* V1 _process_with_mediapipe; results is what face_mesh.process returned.
EyeStabilizerNode_process_with_mediapipe(n, frame_pil, enable_smoothing, enable_blink, enable_enhancement, smoothing_strength, enhancement_strength, dilation, results) ==
    LET n1 == WithFaceMesh(n)
    IN  IF results = None
        THEN FrameResult(n1, frame_pil, ZeroMask(frame_pil.shape), frame_pil,
                         FALSE, FALSE, FALSE)
        ELSE With(TrackAndDetect(n1, Val(results), frame_pil.shape, enable_smoothing,
                                 enable_blink, 100 * smoothing_strength,
                                 100 * smoothing_strength),
             LAMBDA t :
             LET eye_mask_pil == EyeMask(frame_pil.shape, AsInt(t.left_eye),
                                         AsInt(t.right_eye), dilation)
             IN  FrameResult(t.node,
                     IF enable_enhancement
                     THEN _enhance_eyes(frame_pil, eye_mask_pil, enhancement_strength)
                     ELSE frame_pil,
                     eye_mask_pil,
                     DrawDebug(frame_pil, <<AsInt(t.left_eye), AsInt(t.right_eye)>>,
                               <<AsInt(t.left_iris), AsInt(t.right_iris)>>,
                               t.is_blinking, None),
                     TRUE, t.is_blinking, t.blink_called))

\* preset.get(key, 1.0)
PresetGet(preset, key) == IF key \in DOMAIN preset THEN preset[key] ELSE 100

\* V2 _process_with_mediapipe; results is what face_mesh.process returned.
EyeStabilizerV2Node_process_with_mediapipe(n, frame_in, preset, enable_smoothing, enable_blink, enable_enhancement, smoothing_strength, enhancement_strength, dilation, results) ==
    LET n1 == WithFaceMesh(n)
        frame_pil == _ethnicity_preprocess(frame_in, preset)
    IN  IF results = None
        THEN FrameResult(n1, frame_pil, ZeroMask(frame_pil.shape), frame_pil,
                         FALSE, FALSE, FALSE)
        ELSE With(TrackAndDetect(n1, Val(results), frame_pil.shape, enable_smoothing,
                                 enable_blink,
                                 smoothing_strength * PresetGet(preset, "eyelid_weight"),
                                 smoothing_strength * PresetGet(preset, "iris_visibility_factor")),
             LAMBDA t :
             LET eye_mask_pil == EyeMask(frame_pil.shape, AsInt(t.left_eye),
                                         AsInt(t.right_eye), dilation)
             IN  FrameResult(t.node,
                     IF enable_enhancement
                     THEN _ethnicity_enhance_eyes(frame_pil, eye_mask_pil, preset,
                                                  enhancement_strength)
                     ELSE frame_pil,
                     eye_mask_pil,
                     DrawDebug(frame_pil, <<AsInt(t.left_eye), AsInt(t.right_eye)>>,
                               <<AsInt(t.left_iris), AsInt(t.right_iris)>>,
                               t.is_blinking, Some(preset.name)),
                     TRUE, t.is_blinking, t.blink_called))

\* _process_frame (the same shape in V1 and V2): the frame is quantised to
\* 8 bits, processed with or without the landmark detector, and the three
\* images are converted back to tensors.  c holds the call's parameters.
_process_frame(n, frame, c, results) ==
    LET a == c.args
        frame_pil == TensorToPil(frame)
        r == IF n.mediapipe_available
             THEN IF n.version = "V1"
                  THEN EyeStabilizerNode_process_with_mediapipe(n, frame_pil,
                           a.enable_temporal_smoothing, a.enable_blink_detection,
                           a.enable_eye_enhancement, c.smoothing_strength,
                           c.enhancement_strength, a.eye_region_dilation, results)
                  ELSE EyeStabilizerV2Node_process_with_mediapipe(n, frame_pil,
                           ETHNICITY_PRESETS[a.ethnicity_preset],
                           a.enable_temporal_smoothing, a.enable_blink_detection,
                           a.enable_eye_enhancement, c.smoothing_strength,
                           c.enhancement_strength, a.eye_region_dilation, results)
             ELSE FrameResult(n,
                      IF a.enable_eye_enhancement
                      THEN _enhance_image(frame_pil, c.enhancement_strength)
                      ELSE frame_pil,
                      ZeroMask(frame_pil.shape), frame_pil, FALSE, FALSE, FALSE)
    IN  [r EXCEPT !.stabilized = _pil_to_tensor(@), !.eye_mask = MaskToTensor(@),
                  !.debug = _pil_to_tensor(@)]

----------------------------------------------------------------------------
(* stabilize_eyes: one call on a node, as a start step, one step per loop  *)
(* iteration, and a final step that stacks the batches and returns.        *)

\* No call in progress; invocation counts the calls made on the node.
IdleCall(invocation) ==
    [ pc |-> "idle", args |-> <<>>, invocation |-> invocation,
      smoothing_strength |-> 0, enhancement_strength |-> 0, blink_threshold |-> 0,
      i |-> 0, stabilized_frames |-> <<>>, eye_masks |-> <<>>, debug_frames |-> <<>>,
      order |-> <<>>, log |-> <<>>, stale |-> FALSE, error |-> None, result |-> None ]

\* Does the node carry tracker or detector state from earlier frames?
Used(n) ==
    \/ DOMAIN n.landmark_filters # {}
    \/ /\ n.blink_detector # None
       /\ Val(n.blink_detector).ear_history # <<>>

Began(args) ==
    [ IdleCall(call.invocation + 1) EXCEPT !.args = args, !.stale = Used(node) ]

Raised(c, error) == [c EXCEPT !.pc = "raised", !.error = Some(error)]

\* "x_override if x_override >= 0 else preset[x]", with every value but the
\* sentinel taken as an override.
ResolveSentinelOnly(override, default) == IF override # -100 THEN override ELSE default

\* "x_override if x_override >= 0 else preset[x]"
Resolve(override, default) == IF override >= 0 THEN override ELSE default

\* blink_suppression_settings.get(mode, (False, 0)) in place of the lookup.
LookupSuppressionDefault(mode) ==
    IF mode \in SuppressionModes THEN Some(blink_suppression_settings[mode])
    ELSE Some(<<FALSE, 0>>)

\* blink_suppression_settings[blink_suppression_mode]: None stands for KeyError.
LookupSuppression(mode) ==
    IF mode \in SuppressionModes THEN Some(blink_suppression_settings[mode]) ELSE None

\* "self.landmark_filters = {}" and a new detector, with the filter map kept.
ResetKeepingFilters(n, detector) == [n EXCEPT !.blink_detector = Some(detector)]

\* "Reset state for new sequence"
Reset(n, detector) ==
    [n EXCEPT !.landmark_filters = EmptyFilters, !.blink_detector = Some(detector)]

\* V1 stabilize_eyes up to the loop.
StartCallV1(argSet, maxInvocations) ==
    /\ call.pc = "idle"
    /\ node.version = "V1"
    /\ call.invocation < maxInvocations
    /\ \E args \in argSet :
         /\ node' = Reset(node, BlinkDetector(args.blink_threshold))
         /\ call' = [Began(args) EXCEPT !.pc = "loop",
                        !.smoothing_strength = args.smoothing_strength,
                        !.enhancement_strength = args.enhancement_strength,
                        !.blink_threshold = args.blink_threshold]

\* V2 stabilize_eyes up to the loop: the preset lookup, the overrides, the
\* suppression lookup, the reset.
StartCallV2(argSet, maxInvocations) ==
    /\ call.pc = "idle"
    /\ node.version = "V2"
    /\ call.invocation < maxInvocations
    /\ \E args \in argSet :
         IF args.ethnicity_preset \notin PresetNames
         THEN /\ node' = node
              /\ call' = Raised(Began(args), "KeyError")
         ELSE LET preset == ETHNICITY_PRESETS[args.ethnicity_preset]
                  n1 == [node EXCEPT !.current_preset = Some(args.ethnicity_preset)]
                  smoothing_strength ==
                      Resolve(args.smoothing_override, preset.smoothing_strength)
                  enhancement_strength ==
                      Resolve(args.enhancement_override, preset.enhancement_strength)
                  blink_threshold ==
                      Resolve(args.blink_threshold_override, preset.blink_threshold)
                  settings == LookupSuppression(args.blink_suppression_mode)
              IN  IF settings = None
                  THEN /\ node' = n1
                       /\ call' = Raised(Began(args), "KeyError")
                  ELSE /\ node' = Reset(n1, AdaptiveBlinkDetector(blink_threshold,
                                        args.ethnicity_preset,
                                        Val(settings)[1], Val(settings)[2]))
                       /\ call' = [Began(args) EXCEPT !.pc = "loop",
                                      !.smoothing_strength = smoothing_strength,
                                      !.enhancement_strength = enhancement_strength,
                                      !.blink_threshold = blink_threshold]

\* images[i], with the batch read from the back.
FrameAtReversed(images, i) == images[Len(images) - i]

\* images[i], i counted from 0.
FrameAt(images, i) == images[i + 1]

\* One iteration of "for i in range(batch_size)"; the landmark detector,
\* when it is available, answers with one of the detections.
ProcessFrame(detections) ==
    /\ call.pc = "loop"
    /\ call.i < Len(call.args.images)
    /\ \E results \in (IF node.mediapipe_available THEN detections ELSE { None }) :
         \E r \in { _process_frame(node, FrameAt(call.args.images, call.i), call, results) } :
             /\ node' = r.node
             /\ call' = [call EXCEPT
                    !.i = @ + 1,
                    !.stabilized_frames = Append(@, r.stabilized),
                    !.eye_masks = Append(@, r.eye_mask),
                    !.debug_frames = Append(@, r.debug),
                    !.order = Append(@, call.i),
                    !.log = Append(@, [face_found |-> r.face_found,
                                       is_blinking |-> r.is_blinking,
                                       blink_called |-> r.blink_called])]

\* The preset_info string without the "Auto-calibrated EAR" part.
PresetInfoNameOnly(n) ==
    IF n.version = "V1" THEN None
    ELSE Some([ name |-> ETHNICITY_PRESETS[Val(n.current_preset)].name,
                baseline |-> None ])

\* The preset_info string: the preset's name and, when the detector is
\* calibrated, the baseline.
PresetInfo(n) ==
    IF n.version = "V1" THEN None
    ELSE Some([ name |-> ETHNICITY_PRESETS[Val(n.current_preset)].name,
                baseline |-> IF Val(n.blink_detector).calibrated
                             THEN Val(n.blink_detector).baseline_ear ELSE None ])

\* After the loop: torch.stack raises on an empty list; otherwise the
\* batches (and, in V2, preset_info) are returned.
FinishCall ==
    /\ call.pc = "loop"
    /\ call.i = Len(call.args.images)
    /\ node' = node
    /\ call' = IF call.stabilized_frames = <<>>
               THEN Raised(call, "RuntimeError")
               ELSE [call EXCEPT !.pc = "returned",
                        !.result = Some([ stabilized_images |-> call.stabilized_frames,
                                          eye_mask |-> call.eye_masks,
                                          debug_visualization |-> call.debug_frames,
                                          preset_info |-> PresetInfo(node) ])]

\* The caller has the result or the exception; the node lives on.
Return ==
    /\ call.pc \in { "returned", "raised" }
    /\ node' = node
    /\ call' = IdleCall(call.invocation)

----------------------------------------------------------------------------
(* Pipeline inputs.                                                        *)

\* Frames of 48 x 64 pixels, levels in units of 1/510.
FrameShape == <<48, 64>>
FrameA == Tensor(FrameShape, <<101, 300, 200>>)
FrameB == Tensor(FrameShape, <<510, 0, 41>>)
Frames == { FrameA, FrameB }

\* Image batches of up to n frames (an empty batch included).
RECURSIVE Batches(_)
Batches(n) ==
    IF n = 0 THEN { <<>> }
    ELSE Batches(n - 1)
         \cup { Append(b, f) : b \in { c \in Batches(n - 1) : Len(c) = n - 1 }, f \in Frames }

\* What face_mesh.process reports: no face, or the normalised landmarks (in
\* units of 0.01) of the 6 contour points and 5 iris points of each eye.
OpenFace ==
    [ left_eye   |-> << <<30, 40>>, <<34, 32>>, <<38, 32>>, <<42, 40>>, <<38, 48>>, <<34, 48>> >>,
      right_eye  |-> << <<58, 40>>, <<62, 32>>, <<66, 32>>, <<70, 40>>, <<66, 48>>, <<62, 48>> >>,
      left_iris  |-> << <<36, 40>>, <<38, 40>>, <<36, 38>>, <<34, 40>>, <<36, 42>> >>,
      right_iris |-> << <<64, 40>>, <<66, 40>>, <<64, 38>>, <<62, 40>>, <<64, 42>> >> ]

ClosedFace ==
    [ left_eye   |-> << <<30, 40>>, <<34, 40>>, <<38, 40>>, <<42, 40>>, <<38, 41>>, <<34, 41>> >>,
      right_eye  |-> << <<58, 40>>, <<62, 40>>, <<66, 40>>, <<70, 40>>, <<66, 41>>, <<62, 41>> >>,
      left_iris  |-> << <<36, 40>>, <<38, 40>>, <<36, 40>>, <<34, 40>>, <<36, 40>> >>,
      right_iris |-> << <<64, 40>>, <<66, 40>>, <<64, 40>>, <<62, 40>>, <<64, 40>> >> ]

Detections == { None, Some(OpenFace), Some(ClosedFace) }

\* Arguments of V1 stabilize_eyes.
V1Args(batches, toggles, thresholds) ==
    [ images : batches,
      enable_temporal_smoothing : toggles, enable_blink_detection : toggles,
      enable_eye_enhancement : toggles,
      smoothing_strength : { 70 }, enhancement_strength : { 130 },
      blink_threshold : thresholds, eye_region_dilation : { 10 } ]

\* Arguments of V2 stabilize_eyes; an override is in units of 0.01, -100 the
\* default -1.0.
V2Args(batches, presets, toggles, modes, overrides) ==
    [ images : batches, ethnicity_preset : presets,
      enable_temporal_smoothing : toggles, enable_blink_detection : toggles,
      enable_eye_enhancement : toggles,
      blink_suppression_mode : modes,
      smoothing_override : overrides, enhancement_override : overrides,
      blink_threshold_override : overrides, eye_region_dilation : { 10 } ]

\* A preset name and a suppression mode the tables do not hold.
UnknownPreset == "martian"
UnknownMode == "extreme"

\* Override values the sliders offer (minimum -1.0, steps of 0.05 or 0.1).
Overrides == { -100, -50, 0, 50 }

Nodes == { EyeStabilizerNode(m) : m \in BOOLEAN } \cup { EyeStabilizerV2Node(m) : m \in BOOLEAN }

PipelineStart(nodes) ==
    /\ node \in nodes
    /\ call = IdleCall(0)

PipelineIdle == PipelineStart({ EyeStabilizerNode(FALSE) })

----------------------------------------------------------------------------
(* shutdown_monitor.py: the idle-shutdown watchdog.  The aiohttp handlers  *)
(* run one at a time on the event loop; the _monitor_loop thread runs      *)
(* beside them and may be scheduled between any two of their statements.   *)
(* Times are in half seconds; mon.idle stands for time.time() -            *)
(* self.last_activity.                                                     *)

\* self.timeout, in seconds.
Timeout == 600

HalfSeconds(seconds) == 2 * seconds

\* The idle times a clock reading may show: 1 s, 599 s, 599.5 s, and 600 s
\* or more.
IdleMarks ==
    { HalfSeconds(1), HalfSeconds(Timeout) - 2, HalfSeconds(Timeout) - 1, HalfSeconds(Timeout) }

\* ShutdownMonitor.__init__, then set_prompt_server where __init__.py got to it.
ShutdownMonitor(server) ==
    [ enabled |-> FALSE, idle |-> 0, timeout |-> Timeout, running |-> FALSE,
      prompt_server |-> server ]

reset_timer(m) == [m EXCEPT !.idle = 0]

\* int(max(0, self.timeout - elapsed)), in seconds; 0 when disabled.
get_time_remaining(m) ==
    IF ~m.enabled THEN 0
    ELSE (IF HalfSeconds(m.timeout) - m.idle > 0
          THEN HalfSeconds(m.timeout) - m.idle ELSE 0) \div 2

\* A thread that has just been started on _monitor_loop.
NewLoop == [pc |-> "while", time_remaining |-> 0]

LiveLoops == { t \in DOMAIN loops : loops[t].pc # "exited" }

WatchdogStart(servers) ==
    /\ mon \in { ShutdownMonitor(server) : server \in servers }
    /\ loops = <<>>
    /\ handler = "none"
    /\ wd = [alive |-> TRUE, fired |-> 0, armed |-> FALSE]

\* Time passes.
Tick ==
    /\ wd.alive
    /\ \E t \in IdleMarks :
         /\ t > mon.idle
         /\ mon' = [mon EXCEPT !.idle = t]
    /\ UNCHANGED <<loops, handler, wd>>

\* activity_ping_handler.
activity_ping_handler ==
    /\ wd.alive
    /\ handler = "none"
    /\ mon' = reset_timer(mon)
    /\ UNCHANGED <<loops, handler, wd>>

\* toggle, line 52: self.enabled = not self.enabled.
ToggleFlip ==
    /\ wd.alive
    /\ handler = "none"
    /\ mon' = [mon EXCEPT !.enabled = ~mon.enabled]
    /\ handler' = IF mon'.enabled THEN "reset" ELSE "none"
    /\ wd' = IF mon'.enabled THEN wd ELSE [wd EXCEPT !.armed = FALSE]
    /\ UNCHANGED loops

\* toggle, line 54: self.reset_timer().
ToggleReset ==
    /\ wd.alive
    /\ handler = "reset"
    /\ mon' = reset_timer(mon)
    /\ handler' = "start"
    /\ UNCHANGED <<loops, wd>>

\* toggle, lines 55-57, with start_monitoring.
ToggleStart ==
    /\ wd.alive
    /\ handler = "start"
    /\ IF ~mon.running
       THEN /\ mon' = [mon EXCEPT !.running = TRUE]
            /\ loops' = Append(loops, NewLoop)
       ELSE UNCHANGED <<mon, loops>>
    /\ handler' = "none"
    /\ wd' = [wd EXCEPT !.armed = TRUE]

toggle == ToggleFlip \/ ToggleReset \/ ToggleStart

\* _monitor_loop, line 68: while self.running.
MonitorWhile(t) ==
    /\ loops[t].pc = "while"
    /\ loops' = [loops EXCEPT ![t].pc = IF mon.running THEN "if" ELSE "exited"]
    /\ UNCHANGED <<mon, handler, wd>>

\* line 69: if self.enabled.
MonitorIf(t) ==
    /\ loops[t].pc = "if"
    /\ loops' = [loops EXCEPT ![t].pc = IF mon.enabled THEN "queue" ELSE "sleep"]
    /\ UNCHANGED <<mon, handler, wd>>

\* line 70: self.is_queue_active(), which resets the timer when the queue
\* holds pending or running items; without a prompt server, and when the
\* queue lookup raises, it does nothing.
is_queue_active(t) ==
    /\ loops[t].pc = "queue"
    /\ \E has_items \in (IF mon.prompt_server THEN BOOLEAN ELSE { FALSE }) :
         mon' = IF has_items THEN reset_timer(mon) ELSE mon
    /\ loops' = [loops EXCEPT ![t].pc = "remaining"]
    /\ UNCHANGED <<handler, wd>>

\* lines 72-74: time_remaining = self.get_time_remaining() and the test.
MonitorRemaining(t) ==
    /\ loops[t].pc = "remaining"
    /\ \E r \in { get_time_remaining(mon) } :
         loops' = [loops EXCEPT ![t].time_remaining = r,
                                ![t].pc = IF r <= 0 THEN "shutdown" ELSE "sleep"]
    /\ UNCHANGED <<mon, handler, wd>>

\* lines 75-77: _shutdown_runpod and break.  The termination request, or
\* killall, ends the process, or fails and leaves it running.
_shutdown_runpod(t) ==
    /\ loops[t].pc = "shutdown"
    /\ \E killed \in BOOLEAN :
         wd' = [wd EXCEPT !.alive = ~killed, !.fired = @ + 1, !.armed = FALSE]
    /\ loops' = [loops EXCEPT ![t].pc = "exited"]
    /\ UNCHANGED <<mon, handler>>

\* line 79: time.sleep(1).
MonitorSleep(t) ==
    /\ loops[t].pc = "sleep"
    /\ loops' = [loops EXCEPT ![t].pc = "while"]
    /\ UNCHANGED <<mon, handler, wd>>

_monitor_loop ==
    /\ wd.alive
    /\ \E t \in DOMAIN loops :
         \/ MonitorWhile(t)
         \/ MonitorIf(t)
         \/ is_queue_active(t)
         \/ MonitorRemaining(t)
         \/ _shutdown_runpod(t)
         \/ MonitorSleep(t)

----------------------------------------------------------------------------
(* The specifications: each starts one level of the program and leaves the *)
(* objects of the other levels as constructed.                             *)

DetectorIdle == DetectorStart({ BlinkDetector(20) })
KalmanIdle == KalmanStart({ KalmanFilter1D(DefaultProcessVariance, MeasurementVariance) })
EarIdle == EarStart
TrackerIdle == TrackerStart
WatchdogIdle == WatchdogStart({ FALSE })

InitDetector == DetectorStart(FreshDetectors) /\ KalmanIdle /\ PipelineIdle /\ EarIdle /\ TrackerIdle /\ WatchdogIdle
NextDetector == DetectorCall /\ UNCHANGED <<kfVars, pipeVars, earVars, trkVars, wdVars>>
SpecDetector == InitDetector /\ [][NextDetector]_vars

InitCalib ==
    /\ DetectorStart({ d \in FreshDetectors :
                         d.cls = "AdaptiveBlinkDetector" /\ d.ethnicity_preset = "auto" })
    /\ KalmanIdle
    /\ PipelineIdle
    /\ EarIdle
    /\ TrackerIdle
    /\ WatchdogIdle
NextCalib == CalibCall /\ UNCHANGED <<kfVars, pipeVars, earVars, trkVars, wdVars>>
SpecCalib == InitCalib /\ [][NextCalib]_vars

InitKalman ==
    /\ KalmanStart({ KalmanFilter1D(StrengthVariance(s), MeasurementVariance) : s \in Strengths })
    /\ DetectorIdle
    /\ PipelineIdle
    /\ EarIdle
    /\ TrackerIdle
    /\ WatchdogIdle
NextKalman == KalmanUpdate /\ UNCHANGED <<detVars, pipeVars, earVars, trkVars, wdVars>>
SpecKalman == InitKalman /\ [][NextKalman]_vars

\* calculate_ear applied to contours.
InitEar == EarStart /\ DetectorIdle /\ KalmanIdle /\ PipelineIdle /\ TrackerIdle /\ WatchdogIdle
NextEar == CalculateEar /\ UNCHANGED <<detVars, kfVars, pipeVars, trkVars, wdVars>>
SpecEar == InitEar /\ [][NextEar]_vars

\* _apply_smoothing calls on one filter map.
InitTracker == TrackerStart /\ DetectorIdle /\ KalmanIdle /\ PipelineIdle /\ EarIdle /\ WatchdogIdle
NextTracker ==
    /\ ApplySmoothing({ OpenFace, ClosedFace }, FrameShape[2], FrameShape[1])
    /\ UNCHANGED <<detVars, kfVars, pipeVars, earVars, wdVars>>
SpecTracker == InitTracker /\ [][NextTracker]_vars

\* A fresh default filter fed a noisy stationary stream.
InitNoise == KalmanIdle /\ DetectorIdle /\ PipelineIdle /\ EarIdle /\ TrackerIdle /\ WatchdogIdle
NextNoise == NoisyUpdate /\ UNCHANGED <<detVars, pipeVars, earVars, trkVars, wdVars>>
SpecNoise == InitNoise /\ [][NextNoise]_vars

\* One call per node, every preset and every toggle setting with the
\* overrides unset, every batch of up to MaxFrames frames.
PipelineV1Args == V1Args(Batches(MaxFrames), BOOLEAN, { 20 })
PipelineV2Args == V2Args(Batches(MaxFrames), PresetNames, BOOLEAN, { "off" }, { -100 })

InitPipeline == PipelineStart(Nodes) /\ DetectorIdle /\ KalmanIdle /\ EarIdle /\ TrackerIdle /\ WatchdogIdle
NextPipeline ==
    /\ \/ StartCallV1(PipelineV1Args, 1)
       \/ StartCallV2(PipelineV2Args, 1)
       \/ ProcessFrame(Detections)
       \/ FinishCall
       \/ Return
    /\ UNCHANGED <<detVars, kfVars, earVars, trkVars, wdVars>>
SpecPipeline == InitPipeline /\ [][NextPipeline]_vars

\* One V2 call per node over the configuration surface: every preset and
\* suppression mode and one unknown value of each, every combination of
\* override values, on a one-frame batch.
ConfigArgs ==
    V2Args({ <<FrameA>> }, PresetNames \cup { UnknownPreset }, { TRUE },
           SuppressionModes \cup { UnknownMode }, Overrides)

InitConfig ==
    /\ PipelineStart({ EyeStabilizerV2Node(m) : m \in BOOLEAN })
    /\ DetectorIdle
    /\ KalmanIdle
    /\ EarIdle
    /\ TrackerIdle
    /\ WatchdogIdle
NextConfig ==
    /\ \/ StartCallV2(ConfigArgs, 1)
       \/ ProcessFrame(Detections)
       \/ FinishCall
       \/ Return
    /\ UNCHANGED <<detVars, kfVars, earVars, trkVars, wdVars>>
SpecConfig == InitConfig /\ [][NextConfig]_vars

\* One V2 call with smoothing on, for every preset and for smoothing
\* overrides over the range of the slider (-1.0 to 1.0).
SmoothingOverrides == { -100, 0, 50, 80, 100 }
StrengthArgs ==
    { [a EXCEPT !.enable_temporal_smoothing = TRUE, !.smoothing_override = o] :
        a \in V2Args(Batches(MaxFrames), PresetNames, { FALSE }, { "off" }, { -100 }),
        o \in SmoothingOverrides }

InitStrength ==
    /\ PipelineStart({ EyeStabilizerV2Node(TRUE) })
    /\ DetectorIdle
    /\ KalmanIdle
    /\ EarIdle
    /\ TrackerIdle
    /\ WatchdogIdle
NextStrength ==
    /\ \/ StartCallV2(StrengthArgs, 1)
       \/ ProcessFrame({ Some(OpenFace) })
       \/ FinishCall
       \/ Return
    /\ UNCHANGED <<detVars, kfVars, earVars, trkVars, wdVars>>
SpecStrength == InitStrength /\ [][NextStrength]_vars

\* Up to MaxInvocations calls on one long-lived node, valid and invalid.
ReuseV1Args == V1Args(Batches(MaxFrames), { TRUE }, { 10, 20 })
ReuseV2Args ==
    V2Args(Batches(MaxFrames), { "auto", "east_asian", UnknownPreset }, { TRUE },
           { "aggressive", UnknownMode }, { -100 })

InitReuse == PipelineStart(Nodes) /\ DetectorIdle /\ KalmanIdle /\ EarIdle /\ TrackerIdle /\ WatchdogIdle
NextReuse ==
    /\ \/ StartCallV1(ReuseV1Args, MaxInvocations)
       \/ StartCallV2(ReuseV2Args, MaxInvocations)
       \/ ProcessFrame({ None, Some(OpenFace) })
       \/ FinishCall
       \/ Return
    /\ UNCHANGED <<detVars, kfVars, earVars, trkVars, wdVars>>
SpecReuse == InitReuse /\ [][NextReuse]_vars

\* One V2 call over a batch about as long as a calibration takes, with
\* blink detection on or off and smoothing and enhancement off, the landmark
\* detector reporting an open-eyed face on all but at most MaxMisses frames.
LongBatches ==
    { [i \in 1..n |-> FrameA] :
        n \in (CalibrationCount - 1)..(CalibrationCount + MaxExtraFrames) }
LongArgs ==
    { [a EXCEPT !.enable_blink_detection = b] :
        a \in V2Args(LongBatches, { "auto", "african" }, { FALSE },
                     { "off" }, { -100 }),
        b \in BOOLEAN }

Misses(log) == Cardinality({ i \in 1..Len(log) : ~log[i].face_found })

LongFrame ==
    \/ ProcessFrame({ Some(OpenFace) })
    \/ /\ Misses(call.log) < MaxMisses
       /\ ProcessFrame({ None })

InitLong ==
    /\ PipelineStart({ EyeStabilizerV2Node(m) : m \in BOOLEAN })
    /\ DetectorIdle
    /\ KalmanIdle
    /\ EarIdle
    /\ TrackerIdle
    /\ WatchdogIdle
NextLong ==
    /\ \/ StartCallV2(LongArgs, 1)
       \/ LongFrame
       \/ FinishCall
       \/ Return
    /\ UNCHANGED <<detVars, kfVars, earVars, trkVars, wdVars>>
SpecLong == InitLong /\ [][NextLong]_vars

\* One V2 call with blink detection on and suppression mode light over a
\* batch of MaxRunFrames frames, the landmark detector reporting no face, an
\* open-eyed face or a closed-eyed face on each.
RunArgs ==
    { [a EXCEPT !.enable_blink_detection = TRUE] :
        a \in V2Args({ [i \in 1..MaxRunFrames |-> FrameA] }, { "caucasian" }, { FALSE },
                     { "light" }, { -100 }) }

InitRun ==
    /\ PipelineStart({ EyeStabilizerV2Node(TRUE) })
    /\ DetectorIdle
    /\ KalmanIdle
    /\ EarIdle
    /\ TrackerIdle
    /\ WatchdogIdle
NextRun ==
    /\ \/ StartCallV2(RunArgs, 1)
       \/ ProcessFrame(Detections)
       \/ FinishCall
       \/ Return
    /\ UNCHANGED <<detVars, kfVars, earVars, trkVars, wdVars>>
SpecRun == InitRun /\ [][NextRun]_vars

\* The watchdog: the monitor thread interleaved with the handlers and the
\* clock.
InitWatchdog ==
    /\ WatchdogStart(BOOLEAN)
    /\ DetectorIdle
    /\ KalmanIdle
    /\ PipelineIdle
    /\ EarIdle
    /\ TrackerIdle
NextWatchdog ==
    /\ \/ Tick
       \/ activity_ping_handler
       \/ toggle
       \/ _monitor_loop
    /\ UNCHANGED <<detVars, kfVars, pipeVars, earVars, trkVars>>
SpecWatchdog == InitWatchdog /\ [][NextWatchdog]_vars

\* The same with the scheduling the program can count on: time passes, a
\* started thread keeps being scheduled, and a handler that was entered runs
\* to its end.  Requests need never arrive.
WatchdogFairness ==
    /\ WF_wdVars(Tick)
    /\ WF_wdVars(_monitor_loop)
    /\ WF_wdVars(ToggleReset \/ ToggleStart)
SpecWatchdogFair == SpecWatchdog /\ WatchdogFairness

----------------------------------------------------------------------------
(* Claims about the blink detectors. *)

IsV2 == det.cls = "AdaptiveBlinkDetector"
IsAuto == IsV2 /\ det.ethnicity_preset = "auto"

\* C1: a fresh blink detector (V1, and V2 with every preset and every
\* suppression mode) with history capacity 5 returns False from each of its
\* first 4 detect_blink calls, whatever EAR values are passed.
C1_NoBlinkBeforeHistoryFull ==
    (detCalls >= 1 /\ detCalls <= HistorySize - 1) => detLast.result = FALSE

\* C1 witness: the 4th call of an auto-mode V2 detector sees both eyes
\* closed (EAR 0) after open-eye frames, and the call has returned.
C1_Witness ==
    /\ IsAuto
    /\ detCalls = HistorySize - 1
    /\ detLast.left = 0 /\ detLast.right = 0
    /\ det.ear_history[1] = 64

Aggressive == IsV2 /\ det.blink_suppression /\ det.min_blink_duration = 5

\* C2: with suppression mode "aggressive" (minimum run length 5) no frame of
\* a raw-blink run is reported while the run is 4 frames or shorter, and the
\* 5th consecutive raw-blink frame of a run is reported: it is the first
\* reported frame of that run.
C2_AggressiveReportsFromFifth ==
    (Aggressive /\ detCalls >= 1) =>
        /\ detRun <= 4 => detLast.result = FALSE
        /\ detRun = 5 => detLast.result = TRUE

\* C2 witness: an aggressive-mode detector has just reported the 5th frame
\* of a raw-blink run.
C2_Witness ==
    Aggressive /\ detRun = 5 /\ detLast.result = TRUE

\* C3: in auto mode a fresh detector is uncalibrated, with baseline_ear
\* unset, through its first 29 calls; from the 30th call on it is calibrated
\* and baseline_ear is the 75th percentile (linear interpolation between
\* the 22nd and 23rd smallest) of the first 30 averaged EARs; 30 samples of
\* 0.25 give a baseline of 0.25.
C3_CalibratesOnThirtiethCall ==
    IsAuto =>
        /\ detCalls < 30 => (~det.calibrated /\ IsNone(det.baseline_ear))
        /\ detCalls >= 30 =>
             LET first == Sorted(SubSeq(detSeen, 1, 30))
             IN  /\ det.calibrated
                 /\ det.baseline_ear = Some(first[22] + 3 * first[23])
                 /\ Cardinality({ i \in 1..30 : 4 * first[i] <= Val(det.baseline_ear) }) >= 22
                 /\ Cardinality({ i \in 1..30 : 4 * first[i] >= Val(det.baseline_ear) }) >= 8
                 /\ (\A i \in 1..30 : first[i] = 50) => det.baseline_ear = Some(200)

\* C3 witness: the 30th call has just calibrated the detector on 30 samples
\* of 0.25.
C3_Witness ==
    /\ IsAuto
    /\ detCalls = 30
    /\ det.calibrated
    /\ \A i \in 1..30 : detSeen[i] = 50
    /\ det.baseline_ear = Some(200)

\* the average passed on by the last detect_blink call, in units of 0.005
AvgOfLast == detLast.left + detLast.right

\* C14: the EAR history of a detector (V1 or V2) holds at most 5 values,
\* min(n, 5) after n calls; every call appends its averaged EAR at the end
\* and, once the history is full, evicts the oldest value, so the history is
\* the most recent min(n, 5) averages in arrival order.
C14_HistoryKeepsLastFive ==
    /\ [](Len(det.ear_history) = IF detCalls < 5 THEN detCalls ELSE 5)
    /\ [][ det'.ear_history =
             (IF Len(det.ear_history) = 5 THEN Tail(det.ear_history) ELSE det.ear_history)
             \o <<AvgOfLast'>> ]_vars

\* C14 witness: the seventh call has evicted an average of 0.32 from a full
\* history and appended an average of 0.
C14_Witness ==
    /\ detCalls = 7
    /\ det.ear_history = <<64, 64, 64, 0, 0>>
    /\ AvgOfLast = 0

\* C15: in the life of one detector (one stabilize_eyes call), once
\* calibration has set baseline_ear it keeps that value in every later
\* state, calibrated never returns to False, and calibration_samples is
\* never appended to again: its length never exceeds 30.
C15_CalibrationFrozen ==
    /\ [](/\ Len(det.calibration_samples) <= 30
          /\ det.calibrated <=> ~IsNone(det.baseline_ear)
          /\ det.calibrated => Len(det.calibration_samples) = 30)
    /\ [][ ~IsNone(det.baseline_ear) =>
             /\ det'.baseline_ear = det.baseline_ear
             /\ det'.calibrated
             /\ det'.calibration_samples = det.calibration_samples ]_vars

\* C15 witness: six calls after a calibration on samples of 0.25, the last
\* of them with an EAR of 0, the baseline is still 0.25 and the samples are
\* still the first 30.
C15_Witness ==
    /\ detCalls = 36
    /\ detLast.left = 0
    /\ det.calibrated
    /\ det.baseline_ear = Some(200)
    /\ det.calibration_samples = [i \in 1..30 |-> 50]

\* C16: the blink run counter changes only inside detect_blink: it grows by
\* exactly 1 on a frame whose raw blink flag is true and is 0 after any
\* frame whose raw blink flag is false, so that at every state it equals the
\* length of the current run of consecutive raw-blink frames.
C16_CounterIsRunLength ==
    IsV2 => det.blink_counter = detRun

\* C16, amended: with suppression enabled (light, moderate, aggressive) the
\* counter equals the length of the current run of consecutive raw-blink
\* frames at every state; with suppression disabled (off) detect_blink never
\* writes the counter, which stays 0 whatever the raw flags are.
C16_CounterIsRunLengthWhenSuppressing ==
    IsV2 =>
        /\ det.blink_suppression => det.blink_counter = detRun
        /\ ~det.blink_suppression => det.blink_counter = 0

\* C16 witness: a suppressing detector has counted a run of three raw-blink
\* frames.
C16_Witness ==
    /\ IsV2
    /\ det.blink_suppression
    /\ detRun = 3
    /\ detLast.raw
    /\ det.blink_counter = 3

\* The detector has no calibrated baseline: V1 always, V2 with a named
\* preset or before calibration.
NoBaseline == det.cls = "BlinkDetector" \/ ~det.calibrated

\* The averaged EAR values the history holds are all equal.
HistoryConstant ==
    \A i \in 1..Len(det.ear_history) :
        det.ear_history[i] = det.ear_history[Len(det.ear_history)]

\* C28: when the detector has no calibrated baseline the reference of a
\* classifying call is the mean of the 5-entry history that already holds
\* the current sample; hence whenever the 5 most recent averaged EAR values
\* are all equal (and non-negative) the raw blink flag is false, and a
\* raw-blink run during which the averaged EAR stays constant lasts at most
\* 4 frames.
C28_HistoryMeanReference ==
    (NoBaseline /\ detLast.classified) =>
        /\ Len(det.ear_history) = HistorySize
        /\ det.ear_history[HistorySize] = AvgOfLast
        /\ detLast.raw <=>
              (AvgOfLast * HistorySize * 100
                 < SumSeq(det.ear_history) * (100 - det.threshold))
        /\ HistoryConstant => ~detLast.raw
        /\ HistoryConstant => detRun = 0
        /\ detRun >= HistorySize => ~HistoryConstant

\* C28 witness: a raw-blink run at a constant averaged EAR has lasted 4
\* frames, the history still holding one earlier, larger value.
C28_Witness ==
    /\ NoBaseline
    /\ detLast.classified
    /\ detLast.raw
    /\ detRun = HistorySize - 1
    /\ \A i \in 2..HistorySize : det.ear_history[i] = AvgOfLast
    /\ det.ear_history[1] > AvgOfLast

\* C18: in auto mode every detect_blink call made while the detector is
\* still uncalibrated (the first 29 calls) returns False, whatever the EAR
\* values and the suppression mode.
C18_NoBlinkWhileUncalibrated ==
    (IsAuto /\ detCalls >= 1 /\ ~det.calibrated) => ~detLast.result

\* C19: once an auto-mode detector is calibrated, the raw blink flag of
\* every classifying call is avg_ear < baseline_ear * (1 - 0.35): the
\* reference is always the learned baseline, a baseline of 0 included, and
\* the threshold is 0.35.
C19_CalibratedUsesBaseline ==
    (IsAuto /\ det.calibrated /\ detLast.classified) =>
        /\ det.threshold = 35
        /\ detLast.raw <=> (AvgOfLast * 4 * 100 < Val(det.baseline_ear) * (100 - 35))

\* C20: with a named (non-auto) preset the preset supplies the baseline
\* directly: from the first classified frame on the raw blink flag is
\* avg_ear < preset ear_baseline * (1 - threshold), and the detector never
\* collects calibration samples.
C20_NamedPresetUsesPresetBaseline ==
    (IsV2 /\ ~IsAuto) =>
        /\ det.calibration_samples = <<>>
        /\ detLast.classified =>
              (detLast.raw <=>
                 AvgOfLast * 100 <
                   2 * Val(ETHNICITY_PRESETS[det.ethnicity_preset].ear_baseline)
                     * (100 - det.threshold))

\* C21: suppression mode "light" filters raw-blink runs of 1 or 2 frames and
\* "moderate" runs of 1, 2 or 3 frames: no frame of such a run is reported
\* as a blink.  (A stream may end after any call, so the run counted so far
\* is a whole run of that length.)
C21_LightAndModerateFilterShortRuns ==
    (IsV2 /\ det.blink_suppression /\ detCalls >= 1) =>
        /\ (det.min_blink_duration = 2 /\ detRun \in 1..2) => ~detLast.result
        /\ (det.min_blink_duration = 3 /\ detRun \in 1..3) => ~detLast.result

----------------------------------------------------------------------------
(* Claims about the scalar smoother. *)

Dist(a, b) == IF a >= b THEN a - b ELSE b - a
Between(x, a, b) == (a <= x /\ x <= b) \/ (b <= x /\ x <= a)
ConstantStream == \A i \in 1..Len(kfIn) : kfIn[i] = kfIn[1]
\* the estimate before the i-th update (0 at construction)
EstimateBefore(i) == IF i = 1 THEN 0 ELSE kfOut[i - 1]

\* C10: on a constant measurement stream c, fed to a fresh KalmanFilter1D
\* created for a strength in [0, 1], every output of update lies between
\* the estimate before that update and c, and the distance from c never
\* increases from one update to the next.
C10_MonotoneTowardConstant ==
    (Len(kfIn) >= 1 /\ ConstantStream) =>
        \A i \in 1..Len(kfOut) :
            /\ Between(kfOut[i], EstimateBefore(i), kfIn[1])
            /\ Dist(kfIn[1], kfOut[i]) <= Dist(kfIn[1], EstimateBefore(i))

\* C10 witness: a smoother created with strength 1 (process variance 0) has
\* moved strictly closer to the constant 10.00 in each of three updates
\* without reaching it.
C10_Witness ==
    /\ kf.process_variance = 0
    /\ Len(kfIn) = 3
    /\ \A i \in 1..3 : kfIn[i] = 1000
    /\ 0 < kfOut[1] /\ kfOut[1] < kfOut[2] /\ kfOut[2] < kfOut[3] /\ kfOut[3] < 1000

\* n^2 times the population variance (np.var) of the n values of s.
ScaledVariance(s) ==
    Len(s) * SumSeq([i \in 1..Len(s) |-> s[i] * s[i]]) - SumSeq(s) * SumSeq(s)
Noisy(s) == Len(s) >= 2 /\ \E i \in 1..Len(s) : s[i] # s[1]

\* C11: for every noisy stationary measurement stream fed to a fresh
\* default KalmanFilter1D (estimate 0, error estimate 1), the variance of
\* the outputs is strictly less than the variance of the inputs.
C11_OutputVarianceBelowInput ==
    Noisy(kfIn) => ScaledVariance(kfOut) < ScaledVariance(kfIn)

----------------------------------------------------------------------------
(* Claims about the landmark tracker. *)

\* C22: the process_variance and measurement_variance of a scalar smoother
\* are fixed when _apply_smoothing creates it on the first observation of
\* its key (1e-3 * (1 - strength) and 1e-1, for the strength of that call)
\* and never change afterwards: a later call for the same key with another
\* strength changes only estimate and error_estimate.
C22_VarianceFixedAtCreation ==
    [][ /\ \A k \in DOMAIN trk :
             /\ k \in DOMAIN trk'
             /\ trk'[k].process_variance = trk[k].process_variance
             /\ trk'[k].measurement_variance = trk[k].measurement_variance
        /\ \A k \in DOMAIN trk' \ DOMAIN trk :
             /\ k[1] = trkLast'.key
             /\ 100 * trk'[k].process_variance = 10000 - trkLast'.strength
             /\ trk'[k].measurement_variance = 10000 ]_vars

\* C22 witness: the left-eye smoothers created with strength 0.4 (process
\* variance 0.6e-3) have been updated by a second call with strength 0.7 and
\* kept their variance while their estimate moved on.
C22_Witness ==
    /\ trkCalls = 2
    /\ trkLast.key = "left_eye"
    /\ trkLast.strength = 7000
    /\ trk[<<"left_eye", 0, "x">>].process_variance = 60
    /\ trk[<<"left_eye", 0, "x">>].error_estimate < 9091
    /\ trk[<<"left_eye", 0, "x">>].estimate = trkLast.smoothed[1][1]

\* the 44 keys: 2 axes x (6 + 6 contour and 5 + 5 iris) landmarks.
AllFilterKeys ==
    { <<key, i, axis>> : key \in { "left_eye", "right_eye" }, i \in 0..5, axis \in { "x", "y" } }
    \cup { <<key, i, axis>> : key \in { "left_iris", "right_iris" }, i \in 0..4,
                              axis \in { "x", "y" } }

\* C23: in every state of a sequence the filter map holds at most one
\* smoother per (region, side, index, axis) key and at most 44 smoothers, the
\* x smoother of a landmark exists if and only if its y smoother exists, and
\* during a call keys are only added: no step of the loop removes a key or
\* replaces its smoother by a new one.
C23_FilterMapKeys ==
    /\ [](/\ DOMAIN node.landmark_filters \subseteq AllFilterKeys
          /\ Cardinality(DOMAIN node.landmark_filters) <= 44
          /\ \A k \in DOMAIN node.landmark_filters :
                /\ <<k[1], k[2], "x">> \in DOMAIN node.landmark_filters
                /\ <<k[1], k[2], "y">> \in DOMAIN node.landmark_filters)
    /\ [][ (call.pc = "loop" /\ call'.pc = "loop") =>
             \A k \in DOMAIN node.landmark_filters :
                /\ k \in DOMAIN node'.landmark_filters
                /\ node'.landmark_filters[k].process_variance
                     = node.landmark_filters[k].process_variance
                /\ node'.landmark_filters[k].error_estimate
                     <= node.landmark_filters[k].error_estimate ]_vars

\* C23 witness: the second frame of a call has updated the 44 smoothers the
\* first frame created.
C23_Witness ==
    /\ call.pc = "loop"
    /\ call.i = 2
    /\ call.log[1].face_found /\ call.log[2].face_found
    /\ DOMAIN node.landmark_filters = AllFilterKeys
    /\ node.landmark_filters[<<"right_iris", 4, "y">>].error_estimate < 9091

\* C24: for every configuration the V2 node accepts (any preset, smoothing
\* override anywhere in [-1, 1]) a scalar smoother is created with a
\* strength in [0, 1]: its process_variance = 1e-3 * (1 - strength) lies in
\* [0, 1e-3], never negative, and the Kalman gain
\* prediction_error / (prediction_error + measurement_variance) of its next
\* update lies in [0, 1].
C24_StrengthWithinUnitInterval ==
    node.version = "V2" =>
        \A k \in DOMAIN node.landmark_filters :
            /\ node.landmark_filters[k].process_variance >= 0
            /\ node.landmark_filters[k].process_variance <= 100
            /\ node.landmark_filters[k].error_estimate
                 + node.landmark_filters[k].process_variance >= 0

----------------------------------------------------------------------------
(* Claims about blink runs in the frame pipeline. *)

\* Was the frame just processed a raw-blink frame?  A face was found on it
\* and its averaged EAR, the newest of a full history, lies below the
\* history mean by the threshold (the detector of a named preset has no
\* baseline).
LastFrameRaw ==
    /\ call.i >= 1
    /\ call.log[call.i].face_found
    /\ call.log[call.i].blink_called
    /\ Len(Val(node.blink_detector).ear_history) = HistorySize
    /\ BelowHistoryMean(Val(node.blink_detector).ear_history[HistorySize],
                        Val(node.blink_detector).ear_history,
                        Val(node.blink_detector).threshold)

\* C25: under suppression with minimum duration d the pipeline marks frame i
\* as blinking only if frame i and the d - 1 frames immediately before it
\* were all raw-blink frames, a frame without a face counting as a non-blink
\* frame that breaks the run; here for d = 2 (mode light): a frame is marked
\* only if it and the frame before it are raw-blink frames.
C25_MarkedOnlyAfterUnbrokenRun ==
    [][ ( /\ call.pc = "loop" /\ call'.pc = "loop"
          /\ call'.i = call.i + 1
          /\ Val(node.blink_detector).min_blink_duration = 2
          /\ call'.log[call'.i].is_blinking )
        => (LastFrameRaw /\ LastFrameRaw') ]_vars

\* C26: processing a frame on which no face is detected leaves all temporal
\* state unchanged: no scalar smoother is created or updated, and the
\* detector's EAR history, calibration samples, calibrated flag, baseline and
\* blink run counter are after the frame what they were before it.
C26_NoFaceFrameKeepsTemporalState ==
    [][ ( /\ call.pc = "loop" /\ call'.pc = "loop"
          /\ call'.i = call.i + 1
          /\ ~call'.log[call'.i].face_found )
        => ( /\ node'.landmark_filters = node.landmark_filters
             /\ node'.blink_detector = node.blink_detector ) ]_vars

\* A frame without a face has been processed after a frame with a face that
\* created smoothers and fed the detector.
C26_Witness ==
    /\ call.pc = "loop"
    /\ call.i = 2
    /\ call.log[1].face_found
    /\ call.log[1].blink_called
    /\ ~call.log[2].face_found
    /\ node.mediapipe_available
    /\ node.landmark_filters # EmptyFilters
    /\ Val(node.blink_detector).ear_history # <<>>

----------------------------------------------------------------------------
(* Claims about the idle-shutdown watchdog. *)

\* C29: under every interleaving of the monitor thread with the toggle and
\* activity-ping handlers, the watchdog initiates a shutdown only in a state
\* where auto-shutdown is enabled and no activity (toggle-on, activity ping,
\* or a queue check that found items) has occurred within the preceding
\* timeout (600 s); never after auto-shutdown has been toggled off or after
\* an activity ping that reset the timer.
C29_ShutdownOnlyWhenEnabledAndIdle ==
    \A t \in DOMAIN loops :
        loops[t].pc = "shutdown" =>
            /\ mon.enabled
            /\ mon.idle >= HalfSeconds(mon.timeout)

\* A step that counts as activity: a toggle or an activity ping is handled,
\* or a queue check finds items and resets the timer.
Activity ==
    \/ activity_ping_handler
    \/ toggle
    \/ /\ mon.prompt_server
       /\ mon' = reset_timer(mon)
       /\ \E t \in DOMAIN loops : loops[t].pc = "queue" /\ loops'[t].pc = "remaining"

AtMostOneLoop == Cardinality(LiveLoops) <= 1

\* C30: at most one monitor loop exists at any time, and after every toggle
\* that leaves auto-shutdown enabled a monitor loop is running that will
\* eventually initiate shutdown if no further activity occurs, including
\* when the toggle happens after an earlier monitor loop already fired a
\* shutdown attempt and exited.
C30_OneLoopThatEventuallyFires ==
    /\ []AtMostOneLoop
    /\ [](wd.armed => LiveLoops # {})
    /\ (<>[][~Activity]_wdVars) => <>[](~wd.armed)

----------------------------------------------------------------------------
(* Claims about the text summary of a V2 call. *)

FacesFound(log) == Cardinality({ i \in 1..Len(log) : log[i].face_found })
Summary == Val(Val(call.result).preset_info)

\* C17: the text summary returned by V2 stabilize_eyes names the resolved
\* preset, and it includes the learned baseline EAR if and only if the
\* detector was calibrated during that call, which happens exactly with the
\* "auto" preset, blink detection enabled and at least 30 frames of the
\* sequence on which a face was detected.
C17_SummaryNamesPresetAndBaseline ==
    (node.version = "V2" /\ call.pc = "returned") =>
        /\ Summary.name = ETHNICITY_PRESETS[call.args.ethnicity_preset].name
        /\ ~IsNone(Summary.baseline) <=> Val(node.blink_detector).calibrated
        /\ Val(node.blink_detector).calibrated <=>
              /\ call.args.ethnicity_preset = "auto"
              /\ call.args.enable_blink_detection
              /\ FacesFound(call.log) >= CalibrationCount
        /\ ~IsNone(Summary.baseline) =>
              Summary.baseline = Val(node.blink_detector).baseline_ear

\* C17 witness: an auto-preset call with blink detection on has returned
\* from a batch of 31 frames, 30 of them with a face; its summary carries
\* the baseline learned on the 30th of those.
C17_Witness ==
    /\ node.version = "V2"
    /\ call.pc = "returned"
    /\ call.args.ethnicity_preset = "auto"
    /\ Len(call.args.images) = 31
    /\ FacesFound(call.log) = 30
    /\ ~IsNone(Summary.baseline)

----------------------------------------------------------------------------
(* Claims about the EAR calculator. *)

SixPoints(i) == Len(earIn[i]) = 6
V1Of(i) == Norm(earIn[i][2], earIn[i][6])
V2Of(i) == Norm(earIn[i][3], earIn[i][5])
HOf(i) == Norm(earIn[i][1], earIn[i][4])

\* C12: calculate_ear returns (|p2-p6| + |p3-p5|) / (2|p1-p4| + 1e-6) (here
\* rounded down to 0.01); of two contours with the same horizontal span the
\* one with the larger vertical spans has the strictly larger EAR, and the
\* open-eye contour of the source's test has a larger EAR than its
\* closed-eye contour.
C12_EarFormulaAndMonotone ==
    /\ \A i \in 1..Len(earOut) :
         SixPoints(i) =>
             /\ earOut[i] * (20000 * HOf(i) + 1) <= 1000000 * (V1Of(i) + V2Of(i))
             /\ 1000000 * (V1Of(i) + V2Of(i)) < (earOut[i] + 1) * (20000 * HOf(i) + 1)
    /\ \A i, j \in 1..Len(earOut) :
         /\ ( /\ SixPoints(i) /\ SixPoints(j)
              /\ HOf(i) = HOf(j)
              /\ V1Of(i) <= V1Of(j) /\ V2Of(i) <= V2Of(j)
              /\ V1Of(i) + V2Of(i) < V1Of(j) + V2Of(j) )
            => earOut[i] < earOut[j]
         /\ (earIn[i] = EyeClosed /\ earIn[j] = EyeOpen) => earOut[i] < earOut[j]

\* C12 witness: the closed-eye and the open-eye contour of the source's test
\* have been measured: 0.8 / 6 = 0.13 and 4.4 / 6 = 0.73.
C12_Witness ==
    /\ earIn = <<EyeClosed, EyeOpen>>
    /\ earOut = <<13, 73>>

\* C13: calculate_ear never fails: a contour of fewer than 6 points gives
\* 0.3, and a contour of 6 points gives a finite non-negative value (at
\* most the numerator divided by 1e-6) even when the two corners coincide.
C13_EarTotal ==
    /\ Len(earOut) = Len(earIn)
    /\ \A i \in 1..Len(earOut) :
         /\ Len(earIn[i]) < 6 => earOut[i] = 30
         /\ SixPoints(i) =>
               (0 <= earOut[i] /\ earOut[i] <= 1000000 * (V1Of(i) + V2Of(i)))

\* C13 witness: a contour of 5 points gave 0.3 and a contour whose corners
\* coincide, with vertical spans of 2 and 2.4 pixels, gave 4.4 / 1e-6.
C13_Witness ==
    /\ earIn = <<SubSeq(EyeOpen, 1, 5), Contour(0, 100, 120, 0)>>
    /\ earOut = <<30, 440000000>>

----------------------------------------------------------------------------
(* Claims about the configuration of a V2 call. *)

InV2Loop == node.version = "V2" /\ call.pc = "loop"
CallPreset == ETHNICITY_PRESETS[call.args.ethnicity_preset]

InvalidConfiguration(args) ==
    \/ args.ethnicity_preset \notin PresetNames
    \/ args.blink_suppression_mode \notin SuppressionModes

\* C5: a V2 stabilize_eyes call whose preset is not one of the 7 registered
\* presets, or whose suppression mode is not off, light, moderate or
\* aggressive, raises before any frame is processed: no state has such a
\* call in its loop, and no call that raised KeyError has processed a frame.
C5_InvalidConfigurationFailsFast ==
    /\ (node.version = "V2" /\ call.pc # "idle" /\ InvalidConfiguration(call.args)) =>
           /\ call.pc = "raised"
           /\ call.error = Some("KeyError")
           /\ call.i = 0
           /\ call.order = <<>>
           /\ call.stabilized_frames = <<>>
           /\ node.face_mesh = None
    /\ (call.pc = "raised" /\ call.error = Some("KeyError")) => call.order = <<>>

\* C5 witness: a call with a registered preset and an unknown suppression
\* mode has raised after the preset lookup, with no frame processed.
C5_Witness ==
    /\ node.version = "V2"
    /\ call.pc = "raised"
    /\ call.args.ethnicity_preset = "african"
    /\ call.args.blink_suppression_mode = UnknownMode
    /\ node.current_preset = Some("african")
    /\ call.order = <<>>

----------------------------------------------------------------------------
(* Claims about the frame pipeline. *)

\* The detector stabilize_eyes constructs for the call in progress.
FreshDetectorOfCall ==
    IF node.version = "V1" THEN BlinkDetector(call.args.blink_threshold)
    ELSE AdaptiveBlinkDetector(call.blink_threshold, call.args.ethnicity_preset,
             blink_suppression_settings[call.args.blink_suppression_mode][1],
             blink_suppression_settings[call.args.blink_suppression_mode][2])

\* C6: whatever earlier calls on the same node (V1 or V2) did, when the
\* first frame of a call is about to be processed the filter map is empty,
\* the EAR history and the calibration samples are empty, baseline_ear is
\* unset, the run counter is 0, and the detector is the one a fresh instance
\* would have for the same arguments.
C6_StateResetAtCallStart ==
    (call.pc = "loop" /\ call.i = 0) =>
        /\ DOMAIN node.landmark_filters = {}
        /\ Val(node.blink_detector).ear_history = <<>>
        /\ node.version = "V2" =>
               /\ Val(node.blink_detector).calibration_samples = <<>>
               /\ Val(node.blink_detector).baseline_ear = None
               /\ ~Val(node.blink_detector).calibrated
               /\ Val(node.blink_detector).blink_counter = 0
        /\ Val(node.blink_detector) = FreshDetectorOfCall

\* C6 witness: the second call on a V2 node that the first call left with
\* filters and EAR history is about to process its first frame.
C6_Witness ==
    /\ node.version = "V2"
    /\ call.pc = "loop" /\ call.i = 0
    /\ call.invocation = 2
    /\ call.stale
    /\ Len(call.args.images) >= 1

\* The i-th input frame as an 8-bit image, and as the tensor of that image.
Quantised(k) == TensorToPil(call.args.images[k])
QuantisedTensor(k) ==
    [Quantised(k) EXCEPT !.px = [j \in DOMAIN Quantised(k).px |-> 2 * (call.args.images[k].px[j] \div 2)]]

\* C7 (as stated): for every frame on which the landmark detector reports
\* no face, in V1 and in V2 with every preset and toggle setting, the call
\* does not raise and emits the input frame (as its 8-bit image) unchanged
\* as the stabilized frame, an all-zero mask, and the input frame without
\* annotation as the debug frame.
C7_NoFaceFramePassesThrough ==
    \A k \in 1..Len(call.log) :
        (node.mediapipe_available /\ ~call.log[k].face_found) =>
            /\ call.pc # "raised"
            /\ call.stabilized_frames[k] = QuantisedTensor(k)
            /\ call.eye_masks[k].polys = <<>>
            /\ call.debug_frames[k] = QuantisedTensor(k)

\* C27: with eye enhancement disabled every stabilized output frame equals
\* its input frame (as its 8-bit image), in V1 and in V2 with every preset,
\* whether the landmark detector is available or not and whether or not a
\* face is found on the frame.
C27_DisabledEnhancementEchoesInput ==
    \A k \in 1..Len(call.log) :
        ~call.args.enable_eye_enhancement =>
            call.stabilized_frames[k] = QuantisedTensor(k)

Unavailable == ~node.mediapipe_available /\ call.pc # "idle" /\ Len(call.args.images) >= 1

\* What C8 says of everything but the content of the debug frames: the call
\* does not raise; it returns N stabilized frames of the input shape and N
\* all-zero masks; no scalar smoother is created, the landmark detector is
\* never constructed and the blink detector is never called.
C8_UnavailableRest ==
    /\ call.pc # "raised"
    /\ DOMAIN node.landmark_filters = {}
    /\ node.face_mesh = None
    /\ Val(node.blink_detector).ear_history = <<>>
    /\ \A k \in 1..Len(call.log) : ~call.log[k].blink_called /\ ~call.log[k].face_found
    /\ call.pc = "returned" =>
           LET N == Len(call.args.images)
               r == Val(call.result)
           IN  /\ Len(r.stabilized_images) = N
               /\ Len(r.eye_mask) = N
               /\ Len(r.debug_visualization) = N
               /\ \A k \in 1..N :
                      /\ r.stabilized_images[k].shape = call.args.images[k].shape
                      /\ r.eye_mask[k].shape = call.args.images[k].shape
                      /\ r.eye_mask[k].polys = <<>>
                      /\ r.debug_visualization[k].ops = <<>>

\* C8 (as stated): with the landmark detector unavailable, stabilize_eyes on
\* N >= 1 frames with any toggle settings does not raise and returns N
\* stabilized frames of the input shape, N all-zero masks and N debug frames
\* equal to the inputs; no smoother is created and the blink detector is
\* never called.
C8_UnavailableDetectorEchoesInputs ==
    Unavailable =>
        /\ C8_UnavailableRest
        /\ call.pc = "returned" =>
               \A k \in 1..Len(call.args.images) :
                   Val(call.result).debug_visualization[k] = call.args.images[k]

\* C8 (amended): with the landmark detector unavailable, stabilize_eyes on
\* N >= 1 frames with any toggle settings does not raise and returns N
\* stabilized frames of the input shape, N all-zero masks and N debug frames
\* equal to the inputs after their 8-bit quantisation, floor(255 * p) / 255
\* per value p; no smoother is created and the blink detector is never
\* called.
C8_UnavailableDetectorEchoesQuantisedInputs ==
    Unavailable =>
        /\ C8_UnavailableRest
        /\ call.pc = "returned" =>
               \A k \in 1..Len(call.args.images) :
                   Val(call.result).debug_visualization[k] = QuantisedTensor(k)

\* C8 witness: a V2 node without the landmark detector has returned from a
\* two-frame call with enhancement on; the first debug frame is the first
\* input with its level 101/510 cut to 100/510.
C8_Witness ==
    /\ node.version = "V2"
    /\ ~node.mediapipe_available
    /\ call.pc = "returned"
    /\ Len(call.args.images) = 2
    /\ call.args.enable_eye_enhancement
    /\ call.args.images[1].px[1] = 101
    /\ Val(call.result).debug_visualization[1].px[1] = 100

\* The 8-bit frame the outputs of the k-th iteration are computed from: the
\* k-th input, contrast-boosted where V2 preprocesses it.
BaseOfOutput(k) ==
    IF node.version = "V2" /\ node.mediapipe_available
    THEN _ethnicity_preprocess(Quantised(k), CallPreset)
    ELSE Quantised(k)

\* C9: stabilize_eyes processes the frames in increasing index order, each
\* exactly once, appending one stabilized frame, one mask and one debug
\* frame per processed frame; a call that returns returns one of each per
\* input frame, the i-th of each batch computed from the i-th input frame.
C9_FramesInOrderOnePerInput ==
    call.pc \in { "loop", "returned" } =>
        /\ call.i <= Len(call.args.images)
        /\ Len(call.order) = call.i
        /\ \A k \in 1..Len(call.order) : call.order[k] = k - 1
        /\ Len(call.stabilized_frames) = call.i
        /\ Len(call.eye_masks) = call.i
        /\ Len(call.debug_frames) = call.i
        /\ \A k \in 1..call.i :
               /\ call.stabilized_frames[k].px = _pil_to_tensor(BaseOfOutput(k)).px
               /\ call.debug_frames[k].px = _pil_to_tensor(BaseOfOutput(k)).px
               /\ call.eye_masks[k].shape = call.args.images[k].shape
        /\ call.pc = "returned" =>
               /\ call.i = Len(call.args.images)
               /\ Val(call.result).stabilized_images = call.stabilized_frames
               /\ Val(call.result).eye_mask = call.eye_masks
               /\ Val(call.result).debug_visualization = call.debug_frames

\* C9 witness: a call on two different frames, a face found in the first
\* and none in the second, has returned.
C9_Witness ==
    /\ call.pc = "returned"
    /\ Len(call.args.images) = 2
    /\ call.args.images[1] # call.args.images[2]
    /\ call.log[1].face_found /\ ~call.log[2].face_found
    /\ call.order = <<0, 1>>

====
